---- MODULE Spec2Model ----
(***************************************************************************)
(* Model of the catty CLI's client side of the remote-terminal protocol:   *)
(* the Terminal controller (src/lib/terminal.ts), the session relay        *)
(* connectToSession (src/lib/websocket.ts), the paste demultiplexer and    *)
(* file upload (websocket.ts, file-upload.ts), the sync-back writer        *)
(* applyRemoteFileChange (src/lib/workspace.ts) and the reconnect loops of *)
(* `catty connect` and `catty new` (src/commands).                         *)
(*                                                                         *)
(* The program is single-threaded and event-driven.  Every action below is *)
(* one event-loop turn: one handler run to completion, followed by the     *)
(* promise continuations (microtasks) it made runnable.  Handlers are      *)
(* written as operators from a world record to a world record so that the  *)
(* statements of a handler compose in source order.                        *)
(***************************************************************************)
EXTENDS Integers, Sequences, FiniteSets, TLC

VARIABLES
  now,        \* Date.now(), in ms
  conn,       \* the closure variables of the current connectToSession call
  ws,         \* the WebSocket of the current attempt
  terminals,  \* the Terminal instances, one per connectToSession call
  proc,       \* process-wide state: tty mode, listeners, exit status
  sup,        \* the reconnect loop of the running command
  tasks,      \* suspended handlePastedContent calls waiting on the 1 ms chunk timer
  fs,         \* the local filesystem
  hist        \* observations of what the program did (never read by the program);
              \* those about an attempt are kept until the next attempt starts

vars == <<now, conn, ws, terminals, proc, sup, tasks, fs, hist>>

-----------------------------------------------------------------------------
(* Bounds of the model *)

StartTime == 100000          \* Date.now() when the command starts
MaxInputs == 3               \* inputs per run: chunks, frames, signals, faults,
                             \* clock advances, window size changes
MaxLoopInputs == 1           \* the same, in runs that follow the reconnect loop
MaxChanges == 2              \* file changes per run, in runs of the sync-back writer
MaxPastes == 2               \* input chunks per run, in runs of the chunked upload
MaxCalls == 7                \* calls of makeRaw and restore on one Terminal

-----------------------------------------------------------------------------
(* Program constants *)

WS_POLICY_VIOLATION == 1008
WS_READ_TIMEOUT_MS == 60000
HANDSHAKE_TIMEOUT_MS == 30000
HEALTH_CHECK_INTERVAL_MS == 5000
CLIENT_TIMEOUT_MS == WS_READ_TIMEOUT_MS + 15000
DOUBLE_CTRLC_MS == 1000
MAX_RECONNECT_ATTEMPTS == 5
RECONNECT_DELAY_MS == 2000
SYNC_BACK_ACK_TIMEOUT_MS == 2000
MAX_FILE_SIZE == 10 * 1024 * 1024
CHUNK_SIZE == 10 * 1024

PASTE_START == <<"ESC", "[", "2", "0", "0", "~">>
PASTE_END == <<"ESC", "[", "2", "0", "1", "~">>

-----------------------------------------------------------------------------
(* Strings are sequences of characters, buffers are sequences of bytes.    *)
(* A character or byte is a short string; ASCII characters and their bytes *)
(* share one token.  "C3" "A9" are the two bytes of the character "e'";    *)
(* "FFFD" is U+FFFD, whose UTF-8 bytes are "EF" "BF" "BD".                 *)

Min(a, b) == IF a < b THEN a ELSE b
Max(a, b) == IF a > b THEN a ELSE b

\* String.prototype.slice(a, b) / Buffer.slice with 0-based, in-range bounds
Slice(s, a, b) == SubSeq(s, a + 1, b)
SliceFrom(s, a) == SubSeq(s, a + 1, Len(s))

StartsWith(s, p) == Len(p) <= Len(s) /\ SubSeq(s, 1, Len(p)) = p

\* String.prototype.indexOf: 0-based index of the first occurrence, -1 if none
IndexOf(s, p) ==
  LET hits == {i \in 0..(Len(s) - Len(p)) : SubSeq(s, i + 1, i + Len(p)) = p}
  IN IF hits = {} THEN -1 ELSE CHOOSE i \in hits : \A j \in hits : i <= j

RECURSIVE Concat(_)
Concat(ss) == IF ss = <<>> THEN <<>> ELSE Head(ss) \o Concat(Tail(ss))

\* Array.prototype.join(' ')
RECURSIVE JoinSpace(_)
JoinSpace(ss) ==
  IF ss = <<>> THEN <<>>
  ELSE IF Len(ss) = 1 THEN Head(ss)
  ELSE Head(ss) \o <<" ">> \o JoinSpace(Tail(ss))

\* Buffer.prototype.toString('utf-8'): malformed input decodes to U+FFFD
RECURSIVE Utf8Decode(_)
Utf8Decode(b) ==
  IF b = <<>> THEN <<>>
  ELSE IF Head(b) = "C3"
    THEN IF Len(b) >= 2 /\ b[2] = "A9"
         THEN <<"e'">> \o Utf8Decode(SubSeq(b, 3, Len(b)))
         ELSE <<"FFFD">> \o Utf8Decode(Tail(b))
  ELSE IF Head(b) = "EF"
    THEN IF Len(b) >= 3 /\ b[2] = "BF" /\ b[3] = "BD"
         THEN <<"FFFD">> \o Utf8Decode(SubSeq(b, 4, Len(b)))
         ELSE <<"FFFD">> \o Utf8Decode(Tail(b))
  ELSE IF Head(b) \in {"A9", "BF", "BD"}
    THEN <<"FFFD">> \o Utf8Decode(Tail(b))
  ELSE <<Head(b)>> \o Utf8Decode(Tail(b))

\* Buffer.from(str, 'utf-8')
RECURSIVE Utf8Encode(_)
Utf8Encode(s) ==
  IF s = <<>> THEN <<>>
  ELSE (CASE Head(s) = "e'" -> <<"C3", "A9">>
          [] Head(s) = "FFFD" -> <<"EF", "BF", "BD">>
          [] OTHER -> <<Head(s)>>) \o Utf8Encode(Tail(s))

WhiteSpace == {" ", "\n", "\t"}

\* String.prototype.trim
RECURSIVE TrimStart(_)
TrimStart(s) ==
  IF s # <<>> /\ Head(s) \in WhiteSpace THEN TrimStart(Tail(s)) ELSE s

RECURSIVE TrimEnd(_)
TrimEnd(s) ==
  IF s # <<>> /\ s[Len(s)] \in WhiteSpace THEN TrimEnd(SubSeq(s, 1, Len(s) - 1)) ELSE s

Trim(s) == TrimEnd(TrimStart(s))

-----------------------------------------------------------------------------
(* JSON.  A JavaScript value is a record of its kind and content; an object *)
(* is the sequence of its own properties in insertion order.  A JSON text   *)
(* is a sequence of characters; a word that the model never looks into      *)
(* (a type name, a base64 payload) is one character of it.                  *)

Str(s) == [k |-> "string", s |-> s, n |-> 0, b |-> FALSE]
Num(n) == [k |-> "number", s |-> <<>>, n |-> n, b |-> FALSE]
Bool(b) == [k |-> "boolean", s |-> <<>>, n |-> 0, b |-> b]
Null == [k |-> "null", s |-> <<>>, n |-> 0, b |-> FALSE]
Undefined == [k |-> "undefined", s |-> <<>>, n |-> 0, b |-> FALSE]

Prop(key, value) == [key |-> key, value |-> value]

\* obj[key]: the value of the last property of that name, or undefined
Get(obj, key) ==
  LET at == {i \in 1..Len(obj) : obj[i].key = key}
  IN IF at = {} THEN Undefined
     ELSE obj[CHOOSE i \in at : \A j \in at : j <= i].value

\* the names of the properties of obj whose value is not undefined
Keys(obj) == {obj[i].key : i \in {j \in 1..Len(obj) : Get(obj, obj[j].key).k # "undefined"}}

\* two objects with the same properties, whatever their order
SameFields(a, b) == Keys(a) = Keys(b) /\ \A key \in Keys(a) : Get(a, key) = Get(b, key)

DigitChars == <<"0", "1", "2", "3", "4", "5", "6", "7", "8", "9">>

\* Number.prototype.toString for a natural number
RECURSIVE numberToText(_)
numberToText(n) ==
  IF n < 10 THEN <<DigitChars[n + 1]>>
  ELSE numberToText(n \div 10) \o <<DigitChars[(n % 10) + 1]>>

isDigit(c) == \E d \in 1..10 : DigitChars[d] = c
digitValue(c) == (CHOOSE d \in 1..10 : DigitChars[d] = c) - 1

QUOTE == "\""
BACKSLASH == "\\"

\* the characters of a string between the quotes of its JSON text
RECURSIVE escape(_)
escape(s) ==
  IF s = <<>> THEN <<>>
  ELSE (IF Head(s) \in {QUOTE, BACKSLASH} THEN <<BACKSLASH, Head(s)>> ELSE <<Head(s)>>)
       \o escape(Tail(s))

valueToText(v) ==
  CASE v.k = "string" -> <<QUOTE>> \o escape(v.s) \o <<QUOTE>>
    [] v.k = "number" -> numberToText(v.n)
    [] v.k = "boolean" -> IF v.b THEN <<"true">> ELSE <<"false">>
    [] OTHER -> <<"null">>

\* the properties of an object between the braces, undefined ones skipped
RECURSIVE propsToText(_, _)
propsToText(obj, first) ==
  IF obj = <<>> THEN <<>>
  ELSE IF Head(obj).value.k = "undefined" THEN propsToText(Tail(obj), first)
  ELSE (IF first THEN <<>> ELSE <<",">>)
       \o <<QUOTE>> \o escape(<<Head(obj).key>>) \o <<QUOTE, ":">>
       \o valueToText(Head(obj).value)
       \o propsToText(Tail(obj), FALSE)

\* JSON.stringify of an object of scalars
JSONstringify(obj) == <<"{">> \o propsToText(obj, TRUE) \o <<"}">>

\* The parser reads the text from position i and returns what it read and the
\* position after it; ok is FALSE where JSON.parse throws a SyntaxError.
ParseFail == [ok |-> FALSE, value |-> Undefined, at |-> 0]

\* the characters of a string whose opening quote is before position i
RECURSIVE parseChars(_, _, _)
parseChars(text, i, acc) ==
  IF i > Len(text) THEN ParseFail
  ELSE IF text[i] = QUOTE THEN [ok |-> TRUE, value |-> Str(acc), at |-> i + 1]
  ELSE IF text[i] = BACKSLASH
    THEN IF i + 1 <= Len(text) /\ text[i + 1] \in {QUOTE, BACKSLASH}
         THEN parseChars(text, i + 2, Append(acc, text[i + 1]))
         ELSE ParseFail
  ELSE parseChars(text, i + 1, Append(acc, text[i]))

RECURSIVE parseDigits(_, _, _)
parseDigits(text, i, acc) ==
  IF i <= Len(text) /\ isDigit(text[i])
  THEN parseDigits(text, i + 1, 10 * acc + digitValue(text[i]))
  ELSE [ok |-> TRUE, value |-> Num(acc), at |-> i]

\* a scalar value at position i
parseValue(text, i) ==
  IF i > Len(text) THEN ParseFail
  ELSE IF text[i] = QUOTE THEN parseChars(text, i + 1, <<>>)
  ELSE IF isDigit(text[i])
    THEN IF text[i] = "0" /\ i + 1 <= Len(text) /\ isDigit(text[i + 1]) THEN ParseFail
         ELSE parseDigits(text, i, 0)
  ELSE IF text[i] = "true" THEN [ok |-> TRUE, value |-> Bool(TRUE), at |-> i + 1]
  ELSE IF text[i] = "false" THEN [ok |-> TRUE, value |-> Bool(FALSE), at |-> i + 1]
  ELSE IF text[i] = "null" THEN [ok |-> TRUE, value |-> Null, at |-> i + 1]
  ELSE ParseFail

\* the last property of each name, at the place of the first
RECURSIVE setProp(_, _, _)
setProp(obj, key, value) ==
  IF obj = <<>> THEN <<Prop(key, value)>>
  ELSE IF Head(obj).key = key THEN <<Prop(key, value)>> \o Tail(obj)
  ELSE <<Head(obj)>> \o setProp(Tail(obj), key, value)

\* the properties of an object from position i, a property expected there
RECURSIVE parseProps(_, _, _)
parseProps(text, i, obj) ==
  LET valued(key, v) ==
        IF ~v.ok \/ v.at > Len(text) THEN [ok |-> FALSE, obj |-> <<>>, at |-> 0]
        ELSE IF text[v.at] = "}"
          THEN [ok |-> TRUE, obj |-> setProp(obj, key, v.value), at |-> v.at + 1]
        ELSE IF text[v.at] = ","
          THEN parseProps(text, v.at + 1, setProp(obj, key, v.value))
        ELSE [ok |-> FALSE, obj |-> <<>>, at |-> 0]
      named(key) ==
        IF ~key.ok \/ key.at > Len(text) \/ Len(key.value.s) > 1
        THEN [ok |-> FALSE, obj |-> <<>>, at |-> 0]
        ELSE IF text[key.at] # ":" THEN [ok |-> FALSE, obj |-> <<>>, at |-> 0]
        ELSE valued(IF key.value.s = <<>> THEN "" ELSE key.value.s[1],
                    parseValue(text, key.at + 1))
  IN IF i > Len(text) \/ text[i] # QUOTE THEN [ok |-> FALSE, obj |-> <<>>, at |-> 0]
     ELSE named(parseChars(text, i + 1, <<>>))

\* JSON.parse of a text that holds a scalar or an object of scalars:
\* [ok, kind, obj, value]
JSONparse(text) ==
  LET whole(r, kind) ==
        IF r.ok /\ r.at = Len(text) + 1
        THEN [ok |-> TRUE, kind |-> kind,
              obj |-> IF kind = "object" THEN r.obj ELSE <<>>,
              value |-> IF kind = "object" THEN Undefined ELSE r.value]
        ELSE [ok |-> FALSE, kind |-> "", obj |-> <<>>, value |-> Undefined]
      scalar(r) == whole(r, IF r.ok /\ r.value.k = "null" THEN "null" ELSE "scalar")
  IN IF text = <<>> THEN [ok |-> FALSE, kind |-> "", obj |-> <<>>, value |-> Undefined]
     ELSE IF text[1] = "{"
       THEN IF Len(text) >= 2 /\ text[2] = "}"
            THEN whole([ok |-> TRUE, obj |-> <<>>, at |-> 3], "object")
            ELSE whole(parseProps(text, 2, <<>>), "object")
     ELSE scalar(parseValue(text, 1))

-----------------------------------------------------------------------------
(* The process: listeners, tty mode, exit.                                 *)

TerminalListener == [h |-> "terminal", id |-> 0]
RelayListener(id) == [h |-> "relay", id |-> id]

\* EventEmitter.off: removes the most recently added instance of the listener
RemoveListener(ls, l) ==
  LET at == {i \in 1..Len(ls) : ls[i] = l}
  IN IF at = {} THEN ls
     ELSE LET k == CHOOSE i \in at : \A j \in at : j <= i
          IN SubSeq(ls, 1, k - 1) \o SubSeq(ls, k + 1, Len(ls))

\* an exception leaves the function `by` and reaches its caller
throws(w, by) == [w EXCEPT !.hist.thrown = Append(@, by)]

stderrWrite(w, line) ==
  [w EXCEPT !.hist.stderr = Append(@, [attempt |-> w.conn.id, line |-> line])]

-----------------------------------------------------------------------------
(* Terminal (src/lib/terminal.ts) *)

NewTerminal == [wasRaw |-> FALSE, cleanupDone |-> FALSE]

isTerminal(w) == w.proc.isTTY

enableBracketedPaste(w) == [w EXCEPT !.proc.bracketedPaste = TRUE]

disableBracketedPaste(w) == [w EXCEPT !.proc.bracketedPaste = FALSE]

\* hist.restores gains the entry of a call of Terminal.restore
noteRestore(id, before, after) ==
  [after EXCEPT !.hist.restores =
     Append(@, [id |-> id,
                wasRaw |-> before.terminals[id].wasRaw,
                cleanupDone |-> before.terminals[id].cleanupDone,
                rawBefore |-> before.proc.rawMode, rawAfter |-> after.proc.rawMode,
                writes |-> after.hist.restoreWrites - before.hist.restoreWrites,
                same |-> after = before])]

\* Terminal.restore without its cleanupDone guard and leaving wasRaw set
restoreRepeating(w, id) ==
  LET switch(w1) == [w1 EXCEPT !.terminals[id].cleanupDone = TRUE,
                               !.proc.activeTerminal = IF @ = id THEN 0 ELSE @]
  IN noteRestore(id, w,
       switch(IF w.terminals[id].wasRaw /\ w.proc.isTTY
              THEN [w EXCEPT !.proc.rawMode = FALSE,
                             !.proc.bracketedPaste = FALSE,
                             !.proc.cursorShown = TRUE,
                             !.hist.restoreWrites = @ + 1]
              ELSE w))

\* Terminal.restore on the instance `id`
restore(w, id) ==
  IF w.terminals[id].cleanupDone THEN noteRestore(id, w, w)
  ELSE
    LET done(w1) == [w1 EXCEPT !.terminals[id].cleanupDone = TRUE,
                               !.proc.activeTerminal = IF @ = id THEN 0 ELSE @]
    IN noteRestore(id, w,
         done(IF w.terminals[id].wasRaw /\ w.proc.isTTY
              THEN [w EXCEPT !.proc.rawMode = FALSE,
                             !.proc.bracketedPaste = FALSE,
                             !.proc.cursorShown = TRUE,
                             !.hist.restoreWrites = @ + 1,
                             !.terminals[id].wasRaw = FALSE]
              ELSE w))

\* Terminal.makeRaw on the instance `id`; registers the process-wide handlers once
makeRaw(w, id) ==
  IF ~isTerminal(w) THEN w
  ELSE IF w.terminals[id].wasRaw THEN w
  ELSE
    LET w1 == [w EXCEPT !.proc.rawMode = TRUE,
                        !.terminals[id].wasRaw = TRUE,
                        !.proc.activeTerminal = id]
    IN IF ~w1.proc.globalHandlersRegistered
       THEN [w1 EXCEPT !.proc.globalHandlersRegistered = TRUE,
                       !.proc.exitListeners = Append(@, TerminalListener),
                       !.proc.sigint = Append(@, TerminalListener)]
       ELSE w1

\* the `cleanup` closure of the process-wide handlers
terminalCleanup(w) ==
  IF w.proc.activeTerminal # 0 THEN restore(w, w.proc.activeTerminal) ELSE w

-----------------------------------------------------------------------------
(* The WebSocket (package ws), as the relay uses it *)

NewWebSocket ==
  [readyState |-> "CONNECTING", sent |-> <<>>, inbound |-> FALSE,
   errored |-> FALSE, closeCalled |-> FALSE, terminated |-> FALSE,
   closeCode |-> 1006, closeReason |-> ""]

\* ws.send without callback: delivered only while OPEN
wsSend(w, frame) ==
  IF w.ws.readyState = "OPEN"
  THEN [w EXCEPT !.ws.sent = Append(@, frame)]
  ELSE w

\* ws.close(): starts the closing handshake (aborts a pending opening handshake)
wsClose(w) ==
  LET called == [w EXCEPT !.hist.closeCalls =
                   Append(@, [readyState |-> w.ws.readyState, raw |-> w.proc.rawMode,
                              restoreWrites |-> w.hist.restoreWrites,
                              delivered |-> Len(w.hist.delivered)])]
  IN IF w.ws.readyState \in {"CLOSED", "CLOSING"} THEN called
     ELSE [called EXCEPT !.ws.readyState = "CLOSING", !.ws.closeCalled = TRUE]

\* ws.terminate(): destroys the socket
wsTerminate(w) ==
  IF w.ws.readyState = "CLOSED" THEN w
  ELSE [w EXCEPT !.ws.readyState = "CLOSING", !.ws.inbound = FALSE,
                 !.ws.terminated = TRUE]

\* frames the relay sends
BinaryFrame(data, origin) ==
  [bin |-> TRUE, type |-> "", data |-> data, origin |-> origin,
   upload |-> [id |-> <<>>, index |-> 0, total |-> 0, from |-> 0, to |-> 0]]

NoOrigin == [n |-> 0, ph |-> 0]

ControlFrame(type, data) ==
  [bin |-> FALSE, type |-> type, data |-> data, origin |-> NoOrigin,
   upload |-> [id |-> <<>>, index |-> 0, total |-> 0, from |-> 0, to |-> 0]]

\* the create*Message functions: the frame's data is the JSON text
createResizeMessage(cols, rows) ==
  ControlFrame("resize",
               JSONstringify(<<Prop("type", Str(<<"resize">>)), Prop("cols", Num(cols)),
                               Prop("rows", Num(rows))>>))
createPongMessage == ControlFrame("pong", JSONstringify(<<Prop("type", Str(<<"pong">>))>>))
createSyncBackMessage(enabled) ==
  ControlFrame("sync_back",
               JSONstringify(<<Prop("type", Str(<<"sync_back">>)),
                               Prop("enabled", Bool(enabled))>>))

-----------------------------------------------------------------------------
(* Connection results *)

ExitResult(code) == [type |-> "exit", code |-> code, reason |-> ""]
DisconnectedResult(reason) == [type |-> "disconnected", code |-> 0, reason |-> reason]
ReplacedResult == [type |-> "replaced", code |-> 0, reason |-> ""]
InterruptedResult == [type |-> "interrupted", code |-> 0, reason |-> ""]

-----------------------------------------------------------------------------
(* Paths (node:path, POSIX flavour) over character sequences *)

SEP == <<"/">>

\* String.prototype.split('/')
RECURSIVE SplitSlash(_)
SplitSlash(p) ==
  LET at(i) == IF i = -1 THEN <<p>>
               ELSE <<Slice(p, 0, i)>> \o SplitSlash(SliceFrom(p, i + 1))
  IN at(IndexOf(p, SEP))

RECURSIVE JoinSlash(_)
JoinSlash(segs) ==
  IF segs = <<>> THEN <<>>
  ELSE IF Len(segs) = 1 THEN Head(segs)
  ELSE Head(segs) \o SEP \o JoinSlash(Tail(segs))

\* normalizeString of node:path: resolves "." and ".." segments
RECURSIVE normalizeString(_, _, _)
normalizeString(segs, acc, allowAboveRoot) ==
  IF segs = <<>> THEN acc
  ELSE
    LET s == Head(segs)
    IN IF s = <<>> \/ s = <<".">>
       THEN normalizeString(Tail(segs), acc, allowAboveRoot)
       ELSE IF s = <<".", ".">>
       THEN IF acc # <<>> /\ acc[Len(acc)] # <<".", ".">>
            THEN normalizeString(Tail(segs), SubSeq(acc, 1, Len(acc) - 1), allowAboveRoot)
            ELSE IF allowAboveRoot
            THEN normalizeString(Tail(segs), Append(acc, s), allowAboveRoot)
            ELSE normalizeString(Tail(segs), acc, allowAboveRoot)
       ELSE normalizeString(Tail(segs), Append(acc, s), allowAboveRoot)

\* path.normalize
normalize(p) ==
  IF p = <<>> THEN <<".">>
  ELSE
    LET isAbs == p[1] = "/"
        trailingSeparator == p[Len(p)] = "/"
        finish(path) ==
          IF path = <<>>
          THEN (IF isAbs THEN SEP ELSE IF trailingSeparator THEN <<".", "/">> ELSE <<".">>)
          ELSE (IF isAbs THEN SEP ELSE <<>>) \o path
               \o (IF trailingSeparator THEN SEP ELSE <<>>)
    IN finish(JoinSlash(normalizeString(SplitSlash(p), <<>>, ~isAbs)))

\* path.join(a, b)
join(a, b) ==
  LET joined == IF a = <<>> THEN b ELSE IF b = <<>> THEN a ELSE a \o SEP \o b
  IN IF joined = <<>> THEN <<".">> ELSE normalize(joined)

\* path.isAbsolute
isAbsolute(p) == p # <<>> /\ p[1] = "/"

\* path.dirname
dirname(p) ==
  IF p = <<>> THEN <<".">>
  ELSE
    LET hasRoot == p[1] = "/"
        \* 0-based positions >= 1 of a separator that has a non-separator after it
        cand == {i \in 1..(Len(p) - 1) :
                   p[i + 1] = "/" /\ \E j \in (i + 1)..(Len(p) - 1) : p[j + 1] # "/"}
    IN IF cand = {} THEN (IF hasRoot THEN SEP ELSE <<".">>)
       ELSE LET end == CHOOSE i \in cand : \A j \in cand : j <= i
            IN IF hasRoot /\ end = 1 THEN <<"/", "/">> ELSE Slice(p, 0, end)

-----------------------------------------------------------------------------
(* The local filesystem: a function from absolute paths to nodes.          *)
(* Every fs call either succeeds or throws; Fs* operators return           *)
(* [ok, w], and a successful mutating call is noted in hist.mutations.      *)

FileNode(content, mode, size) ==
  [kind |-> "file", content |-> content, mode |-> mode, size |-> size]
DirNode == [kind |-> "dir", content |-> <<>>, mode |-> 0, size |-> 0]

exists(f, p) == p \in DOMAIN f
isFileAt(f, p) == exists(f, p) /\ f[p].kind = "file"
isDirAt(f, p) == exists(f, p) /\ f[p].kind = "dir"
endsWithSep(p) == Len(p) > 1 /\ p[Len(p)] = "/"

\* a path with its trailing separators removed, as the kernel looks it up
RECURSIVE stripSep(_)
stripSep(p) == IF endsWithSep(p) THEN stripSep(SubSeq(p, 1, Len(p) - 1)) ELSE p

noted(w, op, p) == [w EXCEPT !.hist.mutations = Append(@, [op |-> op, path |-> p])]

\* the directory and all its ancestors up to the root
RECURSIVE ancestors(_)
ancestors(d) ==
  LET under(parent) == IF parent = d THEN {d} ELSE {d} \cup ancestors(parent)
  IN under(dirname(d))

\* fs.mkdirSync(dir, { recursive: true })
FsMkdirRecursive(w, dir) ==
  LET make(d, chain) ==
        IF \E a \in chain : isFileAt(w.fs, a) THEN [ok |-> FALSE, w |-> w]
        ELSE IF \A a \in chain : exists(w.fs, a) THEN [ok |-> TRUE, w |-> w]
        ELSE [ok |-> TRUE,
              w |-> noted([w EXCEPT !.fs = [a \in chain \ DOMAIN @ |-> DirNode] @@ @],
                          "mkdir", d)]
  IN make(stripSep(dir), ancestors(stripSep(dir)))

\* fs.writeFileSync(path, content, { mode }): the mode applies to a created file only
FsWriteFile(w, p, content, mode) ==
  IF endsWithSep(p) \/ isDirAt(w.fs, p) \/ ~isDirAt(w.fs, dirname(p))
  THEN [ok |-> FALSE, w |-> w]
  ELSE LET m == IF exists(w.fs, p) THEN w.fs[p].mode ELSE mode
       IN [ok |-> TRUE,
           w |-> noted([w EXCEPT !.fs = (p :> FileNode(content, m, Len(content))) @@ @],
                       "write", p)]

\* fs.unlinkSync
FsUnlink(w, p) ==
  IF endsWithSep(p) \/ ~isFileAt(w.fs, p) THEN [ok |-> FALSE, w |-> w]
  ELSE [ok |-> TRUE,
        w |-> noted([w EXCEPT !.fs = [q \in (DOMAIN @) \ {p} |-> @[q]]], "unlink", p)]

\* fs.renameSync(from, to), from a regular file
FsRename(w, from, to) ==
  IF ~isFileAt(w.fs, from) \/ endsWithSep(to) \/ isDirAt(w.fs, to)
     \/ ~isDirAt(w.fs, dirname(to))
  THEN [ok |-> FALSE, w |-> w]
  ELSE [ok |-> TRUE,
        w |-> noted([w EXCEPT !.fs = (to :> @[from]) @@ [q \in (DOMAIN @) \ {from} |-> @[q]]],
                    "rename", to)]

\* fs.chmodSync
FsChmod(w, p, mode) ==
  IF ~exists(w.fs, stripSep(p)) THEN [ok |-> FALSE, w |-> w]
  ELSE [ok |-> TRUE, w |-> noted([w EXCEPT !.fs[stripSep(p)].mode = mode], "chmod", p)]

\* fs.existsSync
FsExists(w, p) ==
  exists(w.fs, stripSep(p)) /\ (endsWithSep(p) => isDirAt(w.fs, stripSep(p)))

\* Buffer.from(text, 'base64'): the payloads the model's messages carry
Base64Decode(text) ==
  CASE text = "QQ==" -> <<"A">>
    [] text = "QkI=" -> <<"B", "B">>
    [] OTHER -> <<>>

-----------------------------------------------------------------------------
(* Sync-back writer: applyRemoteFileChange.  workspace.ts holds two        *)
(* definitions of it, modelled one by one.                                 *)

CWD == <<"/", "w">>

WORKSPACE_PREFIX == <<"/", "workspace">>

\* msg.path.replace(/^\/workspace\/?/, '')
stripWorkspace(p) ==
  IF StartsWith(p, WORKSPACE_PREFIX \o SEP) THEN SliceFrom(p, Len(WORKSPACE_PREFIX) + 1)
  ELSE IF StartsWith(p, WORKSPACE_PREFIX) THEN SliceFrom(p, Len(WORKSPACE_PREFIX))
  ELSE p

\* msg.path.replace(/^\.\//, '')
stripDotSlash(p) == IF StartsWith(p, <<".", "/">>) THEN SliceFrom(p, 2) ELSE p

\* the security check of lines 160-166
insideCwdV1(resolved, cwd) == StartsWith(resolved, cwd)

\* The points at which the process can die inside the write branch: after
\* mkdirSync, inside writeFileSync once the file is opened (created or truncated),
\* inside it with part of the content written, and after it has returned.
\* "done" is the call that runs to its end.
Cuts == {"mkdir", "open", "partial", "written"}

\* what writeFileSync has put in the file when the process dies at `cut`
writtenUpTo(content, cut) ==
  CASE cut = "open" -> <<>>
    [] cut = "partial" -> SubSeq(content, 1, Len(content) \div 2)
    [] OTHER -> content

\* workspace.ts lines 149-201, run until `cut`
applyRemoteFileChangeV1Until(w, msg, cut) ==
  LET cwd == CWD
      chmod(r2, localPath) ==
        IF ~r2.ok THEN r2.w
        ELSE IF msg.mode # 0 THEN FsChmod(r2.w, localPath, msg.mode).w
        ELSE r2.w
      write(r1, localPath) ==
        IF ~r1.ok \/ cut = "mkdir" THEN r1.w
        ELSE IF cut # "done"
          THEN FsWriteFile(r1.w, localPath,
                           writtenUpTo(Base64Decode(msg.content), cut), 438).w
        ELSE chmod(FsWriteFile(r1.w, localPath, Base64Decode(msg.content), 438),
                   localPath)
      apply(relativePath, localPath, resolved) ==
        IF relativePath = <<>> THEN w
        ELSE IF ~insideCwdV1(resolved, cwd) THEN w
        ELSE IF msg.action = "delete"
          THEN IF FsExists(w, localPath) THEN FsUnlink(w, localPath).w ELSE w
        ELSE IF msg.action = "write"
          THEN IF msg.content = "" THEN w
               ELSE write(FsMkdirRecursive(w, dirname(localPath)), localPath)
        ELSE w
  IN IF ~msg.hasPath THEN w
     ELSE apply(stripWorkspace(msg.path), join(cwd, stripWorkspace(msg.path)),
                join(cwd, stripWorkspace(msg.path)))

applyRemoteFileChangeV1(w, msg) == applyRemoteFileChangeV1Until(w, msg, "done")

\* the traversal check of line 223
isTraversal(rel) == rel = <<".", ".">> \/ StartsWith(rel, <<".", ".">> \o SEP)

\* the containment check of line 235
insideCwd(resolvedDest, resolvedCwd) ==
  StartsWith(resolvedDest, resolvedCwd \o SEP) \/ resolvedDest = resolvedCwd

\* workspace.ts lines 212-255, run until `cut`
applyRemoteFileChangeUntil(w, msg, cut) ==
  LET cwd == CWD
      rename(r2, tmpPath, destPath) ==
        IF ~r2.ok THEN r2.w ELSE FsRename(r2.w, tmpPath, destPath).w
      write(r1, tmpPath, destPath) ==
        IF ~r1.ok \/ cut = "mkdir" THEN r1.w
        ELSE IF cut # "done"
          THEN FsWriteFile(r1.w, tmpPath, writtenUpTo(Base64Decode(msg.content), cut),
                           IF msg.mode = 0 THEN 420 ELSE msg.mode).w
        ELSE rename(FsWriteFile(r1.w, tmpPath, Base64Decode(msg.content),
                                IF msg.mode = 0 THEN 420 ELSE msg.mode),
                    tmpPath, destPath)
      apply(rel, destPath, resolvedCwd, resolvedDest) ==
        IF rel = <<>> \/ rel = <<".">> THEN w
        ELSE IF isAbsolute(rel) THEN stderrWrite(w, "sync-back rejected absolute path")
        ELSE IF isTraversal(rel) THEN stderrWrite(w, "sync-back rejected traversal path")
        ELSE IF ~insideCwd(resolvedDest, resolvedCwd)
          THEN stderrWrite(w, "sync-back rejected path outside base")
        ELSE IF msg.action = "delete" THEN FsUnlink(w, destPath).w
        ELSE IF msg.action = "write"
          THEN write(FsMkdirRecursive(w, dirname(destPath)),
                     join(dirname(destPath), <<".catty-sync-" \o ToString(w.now)>>),
                     destPath)
        ELSE w
      resolved(rel) == apply(rel, join(cwd, rel), normalize(cwd), normalize(join(cwd, rel)))
  IN IF ~msg.hasPath THEN throws(w, "applyRemoteFileChange")
     ELSE resolved(normalize(stripDotSlash(msg.path)))

applyRemoteFileChange(w, msg) == applyRemoteFileChangeUntil(w, msg, "done")

-----------------------------------------------------------------------------
(* Session relay: connectToSession (websocket.ts lines 438-913) *)

getSize(w) == <<w.proc.cols, w.proc.rows>>

NoResult == [type |-> "none", code |-> 0, reason |-> ""]

\* the promise's own resolve: the first call settles the promise the command
\* awaits; every call is noted in hist.delivered
resolve(w, result) ==
  [w EXCEPT !.conn.promise = IF @.type = "none" THEN result ELSE @,
            !.hist.delivered = Append(@, [attempt |-> w.conn.id, result |-> result,
                                          raw |-> w.proc.rawMode,
                                          closeCalls |-> Len(w.hist.closeCalls),
                                          stderr |-> Len(w.hist.stderr),
                                          calls |-> w.hist.calls,
                                          lookups |-> w.hist.lookups,
                                          timers |-> {w.conn.connectionTimeout,
                                                      w.conn.healthCheckInterval} \ {-1}])]

\* safeResolve without the `resolved` guard
safeResolveUnguarded(w, result) ==
  resolve([w EXCEPT !.conn.resolved = TRUE,
                    !.hist.produced = Append(@, [attempt |-> w.conn.id, result |-> result])],
          result)

safeResolve(w, result) ==
  LET w1 == [w EXCEPT !.hist.produced = Append(@, [attempt |-> w.conn.id, result |-> result])]
  IN IF w1.conn.resolved THEN w1
     ELSE resolve([w1 EXCEPT !.conn.resolved = TRUE], result)

\* cleanup that leaves the attempt's timers running
cleanupKeepsTimers(w) ==
  LET id == w.conn.id
      w1 == [w EXCEPT !.conn.connectionClosed = TRUE]
      w2 == restore(disableBracketedPaste(w1), id)
  IN [w2 EXCEPT !.conn.resizeOn = FALSE,
                !.conn.stdinOn = FALSE,
                !.proc.sigint = RemoveListener(@, RelayListener(id)),
                !.proc.sigquit = RemoveListener(@, RelayListener(id))]

\* cleanup that leaves the terminal alone
cleanupNoRestore(w) ==
  LET id == w.conn.id
      w1 == [w EXCEPT !.conn.connectionClosed = TRUE,
                      !.conn.connectionTimeout = -1,
                      !.conn.healthCheckInterval = -1]
  IN [w1 EXCEPT !.conn.resizeOn = FALSE,
                !.conn.stdinOn = FALSE,
                !.proc.sigint = RemoveListener(@, RelayListener(id)),
                !.proc.sigquit = RemoveListener(@, RelayListener(id))]

cleanup(w) ==
  LET id == w.conn.id
      w1 == [w EXCEPT !.conn.connectionClosed = TRUE,
                      !.conn.connectionTimeout = -1,
                      !.conn.healthCheckInterval = -1]
      w2 == restore(disableBracketedPaste(w1), id)
  IN [w2 EXCEPT !.conn.resizeOn = FALSE,
                !.conn.stdinOn = FALSE,
                !.proc.sigint = RemoveListener(@, RelayListener(id)),
                !.proc.sigquit = RemoveListener(@, RelayListener(id))]

SYNC_PAUSED == "Sync paused"

handleSigint(w) ==
  LET w1 == [w EXCEPT !.conn.userInterrupted = TRUE]
      w2 == IF w1.conn.syncBack THEN stderrWrite(w1, SYNC_PAUSED) ELSE w1
      w3 == wsClose(cleanup(w2))
  IN safeResolve(w3, InterruptedResult)

handleSigquit(w) ==
  LET w1 == stderrWrite([w EXCEPT !.conn.userInterrupted = TRUE], "Force quit")
      w2 == IF w1.conn.syncBack THEN stderrWrite(w1, SYNC_PAUSED) ELSE w1
      w3 == wsClose(cleanup(w2))
  IN safeResolve(w3, InterruptedResult)

\* the connection timer's callback leaving the transport as it is
connectionTimeoutFiredNoTerminate(w) ==
  IF ~w.conn.connectionOpened /\ ~w.conn.connectionClosed
  THEN LET w1 == [w EXCEPT !.conn.connectionClosed = TRUE]
           w2 == stderrWrite(w1, "Connection timeout: server not responding")
       IN safeResolve(w2, DisconnectedResult("Connection timeout"))
  ELSE w

\* the callback of the 30 s connection timer
connectionTimeoutFired(w) ==
  IF ~w.conn.connectionOpened /\ ~w.conn.connectionClosed
  THEN LET w1 == [w EXCEPT !.conn.connectionClosed = TRUE]
           w2 == stderrWrite(w1, "Connection timeout: server not responding")
       IN safeResolve(wsTerminate(w2), DisconnectedResult("Connection timeout"))
  ELSE w

\* the health check ending a silent attempt without reporting an outcome
healthCheckNoOutcome(w) ==
  IF w.conn.connectionClosed THEN w
  ELSE LET timeSinceData == w.now - w.conn.lastDataReceived
       IN IF timeSinceData > CLIENT_TIMEOUT_MS
          THEN LET w1 == [w EXCEPT !.conn.healthCheckInterval = -1]
                   w2 == stderrWrite(w1, "Connection timed out (no data)")
               IN cleanup(wsTerminate(w2))
          ELSE w

\* the health check ending the attempt at exactly CLIENT_TIMEOUT_MS of silence
healthCheckInclusive(w) ==
  IF w.conn.connectionClosed THEN w
  ELSE LET timeSinceData == w.now - w.conn.lastDataReceived
       IN IF timeSinceData >= CLIENT_TIMEOUT_MS
          THEN LET w1 == [w EXCEPT !.conn.healthCheckInterval = -1]
                   w2 == stderrWrite(w1, "Connection timed out (no data)")
                   w3 == cleanup(wsTerminate(w2))
               IN safeResolve(w3,
                    DisconnectedResult("Connection timed out (no data received)"))
          ELSE w

\* the callback of the 5 s health-check interval
healthCheck(w) ==
  IF w.conn.connectionClosed THEN w
  ELSE LET timeSinceData == w.now - w.conn.lastDataReceived
       IN IF timeSinceData > CLIENT_TIMEOUT_MS
          THEN LET w1 == [w EXCEPT !.conn.healthCheckInterval = -1]
                   w2 == stderrWrite(w1, "Connection timed out (no data)")
                   w3 == cleanup(wsTerminate(w2))
               IN safeResolve(w3,
                    DisconnectedResult("Connection timed out (no data received)"))
          ELSE w

handleResize(w) ==
  IF w.ws.readyState = "OPEN"
  THEN wsSend(w, createResizeMessage(getSize(w)[1], getSize(w)[2]))
  ELSE w

\* hist.open gains a step of the open handler, with the terminal and the
\* transport as the step left them
noteOpen(w, step) ==
  [w EXCEPT !.hist.open =
     Append(@, [step |-> step, raw |-> w.proc.rawMode,
                paste |-> w.proc.bracketedPaste, sent |-> Len(w.ws.sent),
                stdinOn |-> w.conn.stdinOn])]

\* hist.ack notes when the attempt asked for sync-back
noteRequest(w) == [w EXCEPT !.hist.ack.requestedAt = w.now]

\* the open handler with the sync_back request sent first, before raw mode and
\* the initial size
onOpenSyncFirst(w) ==
  LET listen(w3) ==
        noteOpen([w3 EXCEPT !.conn.resizeOn = TRUE, !.conn.stdinOn = TRUE], "stdin")
      announce(w2) ==
        listen(noteOpen(wsSend(w2, createResizeMessage(getSize(w2)[1], getSize(w2)[2])),
                        "resize"))
      request(w1) ==
        IF w1.conn.syncBack
        THEN noteRequest(noteOpen(wsSend(w1, createSyncBackMessage(TRUE)), "sync_back"))
        ELSE w1
      paste(w1) == announce(noteOpen(enableBracketedPaste(w1), "enableBracketedPaste"))
  IN paste(noteOpen(makeRaw(request([w EXCEPT !.conn.connectionOpened = TRUE,
                                              !.conn.connectionTimeout = -1]),
                            w.conn.id),
                    "makeRaw"))

\* the handler of the transport's open event
onOpen(w) ==
  LET listen(w4) ==
        noteOpen([w4 EXCEPT !.conn.resizeOn = TRUE, !.conn.stdinOn = TRUE], "stdin")
      request(w3) ==
        listen(IF w3.conn.syncBack
               THEN noteRequest(noteOpen(wsSend(w3, createSyncBackMessage(TRUE)), "sync_back"))
               ELSE w3)
      announce(w2) ==
        request(noteOpen(wsSend(w2, createResizeMessage(getSize(w2)[1], getSize(w2)[2])),
                         "resize"))
      paste(w1) == announce(noteOpen(enableBracketedPaste(w1), "enableBracketedPaste"))
  IN paste(noteOpen(makeRaw([w EXCEPT !.conn.connectionOpened = TRUE,
                                      !.conn.connectionTimeout = -1],
                            w.conn.id),
                    "makeRaw"))

\* the fields of a message that the relay and the sync-back writer read, with
\* the value an absent field reads as
Msg(type) ==
  [type |-> type, code |-> 0, message |-> "", action |-> "", hasPath |-> TRUE,
   path |-> <<>>, content |-> "", mode |-> 0]

\* a string that is one word, or "" for anything else
word(v) == IF v.k = "string" /\ Len(v.s) = 1 THEN v.s[1] ELSE ""

\* `msg as ExitMessage`, `msg as FileChangeMessage`, ...: the parsed object seen
\* through the fields the handlers read
asMessage(obj) ==
  [type |-> word(Get(obj, "type")), code |-> Get(obj, "code").n,
   message |-> word(Get(obj, "message")), action |-> word(Get(obj, "action")),
   hasPath |-> Get(obj, "path").k = "string", path |-> Get(obj, "path").s,
   content |-> word(Get(obj, "content")), mode |-> Get(obj, "mode").n]

\* parseMessage returning the type of every message alone
parseMessageTypeOnly(data) ==
  LET switch(base) ==
        IF ~base.ok \/ base.kind = "null" THEN [ok |-> FALSE, msg |-> <<>>]
        ELSE IF base.kind # "object" THEN [ok |-> TRUE, msg |-> <<>>]
        ELSE [ok |-> TRUE, msg |-> <<Prop("type", Get(base.obj, "type"))>>]
  IN switch(JSONparse(data))

\* parseMessage: JSON.parse throws on a malformed text, and reading .type of
\* null throws; ok is FALSE where it throws.  A scalar has no properties.
parseMessage(data) ==
  LET switch(base) ==
        IF ~base.ok \/ base.kind = "null" THEN [ok |-> FALSE, msg |-> <<>>]
        ELSE IF base.kind # "object" THEN [ok |-> TRUE, msg |-> <<>>]
        ELSE IF word(Get(base.obj, "type")) \in {"ping", "pong", "ready"}
          THEN [ok |-> TRUE, msg |-> <<Prop("type", Get(base.obj, "type"))>>]
        ELSE [ok |-> TRUE, msg |-> base.obj]
  IN switch(JSONparse(data))

\* handleControlMessage treating an error message as the end of the session
handleControlMessageFatalError(w, msg) ==
  CASE msg.type = "exit" ->
         LET w1 == [w EXCEPT !.conn.exitCode = msg.code]
             w2 == stderrWrite(w1, "Process exited with code")
             w3 == wsClose(cleanup(w2))
         IN safeResolve(w3, ExitResult(msg.code))
    [] msg.type = "error" ->
         safeResolve(wsClose(cleanup(stderrWrite(w, "Error: message"))),
                     DisconnectedResult(msg.message))
    [] msg.type = "ping" -> wsSend(w, createPongMessage)
    [] msg.type = "sync_back_ack" -> w
    [] msg.type = "file_change" -> applyRemoteFileChange(w, msg)
    [] OTHER -> w

\* handleControlMessage delivering the exit outcome without cleanup and close
handleControlMessageExitOnly(w, msg) ==
  CASE msg.type = "exit" ->
         LET w1 == [w EXCEPT !.conn.exitCode = msg.code]
             w2 == stderrWrite(w1, "Process exited with code")
         IN safeResolve(w2, ExitResult(msg.code))
    [] msg.type = "error" -> stderrWrite(w, "Error: message")
    [] msg.type = "ping" -> wsSend(w, createPongMessage)
    [] msg.type = "sync_back_ack" -> w
    [] msg.type = "file_change" -> applyRemoteFileChange(w, msg)
    [] OTHER -> w

\* handleControlMessage answering a ping twice
handleControlMessageTwoPongs(w, msg) ==
  CASE msg.type = "exit" ->
         LET w1 == [w EXCEPT !.conn.exitCode = msg.code]
             w2 == stderrWrite(w1, "Process exited with code")
             w3 == wsClose(cleanup(w2))
         IN safeResolve(w3, ExitResult(msg.code))
    [] msg.type = "error" -> stderrWrite(w, "Error: message")
    [] msg.type = "ping" -> wsSend(wsSend(w, createPongMessage), createPongMessage)
    [] msg.type = "sync_back_ack" -> w
    [] msg.type = "file_change" -> applyRemoteFileChange(w, msg)
    [] OTHER -> w

handleControlMessage(w, msg) ==
  CASE msg.type = "exit" ->
         LET w1 == [w EXCEPT !.conn.exitCode = msg.code]
             w2 == stderrWrite(w1, "Process exited with code")
             w3 == wsClose(cleanup(w2))
         IN safeResolve(w3, ExitResult(msg.code))
    [] msg.type = "error" -> stderrWrite(w, "Error: message")
    [] msg.type = "ping" -> wsSend(w, createPongMessage)
    [] msg.type = "sync_back_ack" -> w
    [] msg.type = "file_change" -> applyRemoteFileChange(w, msg)
    [] OTHER -> w

\* the message handler without its try/catch around parseMessage
onMessageNoCatch(w, frame) ==
  LET w1 == [w EXCEPT !.conn.lastDataReceived = w.now]
      parsedAs(parsed) == [text |-> frame.text, ok |-> parsed.ok, msg |-> parsed.msg]
      handle(parsed) ==
        IF parsed.ok
        THEN handleControlMessage([w1 EXCEPT !.hist.parsed = Append(@, parsedAs(parsed))],
                                  asMessage(parsed.msg))
        ELSE throws([w1 EXCEPT !.hist.parsed = Append(@, parsedAs(parsed))],
                    "message handler")
  IN IF frame.bin THEN [w1 EXCEPT !.hist.stdoutWrites = @ + 1]
     ELSE handle(parseMessage(frame.text))

\* the handler of the transport's message event
onMessage(w, frame) ==
  LET w1 == [w EXCEPT !.conn.lastDataReceived = w.now]
      parsedAs(parsed) == [text |-> frame.text, ok |-> parsed.ok, msg |-> parsed.msg]
      handle(parsed) ==
        IF parsed.ok
        THEN handleControlMessage([w1 EXCEPT !.hist.parsed = Append(@, parsedAs(parsed))],
                                  asMessage(parsed.msg))
        ELSE [w1 EXCEPT !.hist.parsed = Append(@, parsedAs(parsed))]
  IN IF frame.bin THEN [w1 EXCEPT !.hist.stdoutWrites = @ + 1]
     ELSE handle(parseMessage(frame.text))

\* reason?.toString() || `code ${code}`
reasonStr(code, reason) == IF reason = "" THEN "code " \o ToString(code) ELSE reason

\* the close handler reporting every close as a disconnection
onCloseNoReplaced(w, code, reason) ==
  IF w.conn.connectionClosed THEN w
  ELSE LET report(w1) ==
             IF w1.conn.userInterrupted THEN w1
             ELSE safeResolve(stderrWrite(w1, "Connection lost"),
                              DisconnectedResult(reasonStr(code, reason)))
       IN report(cleanup(w))

\* the handler of the transport's close event
onClose(w, code, reason) ==
  IF w.conn.connectionClosed THEN w
  ELSE LET report(w1) ==
             IF w1.conn.userInterrupted THEN w1
             ELSE IF code = WS_POLICY_VIOLATION
               THEN safeResolve(stderrWrite(w1, "Connection replaced by another client"),
                                ReplacedResult)
               ELSE safeResolve(stderrWrite(w1, "Connection lost"),
                                DisconnectedResult(reasonStr(code, reason)))
       IN report(cleanup(w))

\* the handler of the transport's error event
onError(w, message) ==
  IF w.conn.connectionClosed THEN w
  ELSE LET report(w1) ==
             IF w1.conn.userInterrupted THEN w1
             ELSE safeResolve(stderrWrite(w1, "Connection error"),
                              DisconnectedResult(message))
       IN report(cleanup(w))

\* the attempt's handler of the process exit event
relayOnProcessExit(w) ==
  LET close(w1) == IF w1.ws.readyState = "OPEN" THEN wsClose(w1) ELSE w1
  IN close(cleanup(w))

-----------------------------------------------------------------------------
(* File-upload detector (src/lib/file-upload.ts) *)

HOME == <<"/", "h">>

IMAGE_EXTENSIONS ==
  {<<".", "p", "n", "g">>, <<".", "j", "p", "g">>, <<".", "j", "p", "e", "g">>,
   <<".", "g", "i", "f">>, <<".", "w", "e", "b", "p">>, <<".", "b", "m", "p">>,
   <<".", "s", "v", "g">>}
DOCUMENT_EXTENSIONS ==
  {<<".", "p", "d", "f">>, <<".", "t", "x", "t">>, <<".", "m", "d">>,
   <<".", "j", "s", "o", "n">>, <<".", "x", "m", "l">>, <<".", "c", "s", "v">>}
SUPPORTED_EXTENSIONS == IMAGE_EXTENSIONS \cup DOCUMENT_EXTENSIONS

UpperCase == {"A", "B", "P", "N", "G"}

\* String.prototype.toLowerCase, character by character
lowerChar(c) ==
  CASE c = "A" -> "a" [] c = "B" -> "b" [] c = "P" -> "p" [] c = "N" -> "n"
    [] c = "G" -> "g" [] OTHER -> c
toLowerCase(s) == [i \in 1..Len(s) |-> lowerChar(s[i])]

\* path.basename(p)
basename(p) ==
  LET last(segs) == segs[Len(segs)]
  IN IF stripSep(p) = SEP THEN <<>> ELSE last(SplitSlash(stripSep(p)))

\* path.extname(p)
extname(p) ==
  LET from(base) ==
        LET dots == {i \in 1..Len(base) : base[i] = "."}
        IN IF dots = {} \/ base = <<".", ".">> THEN <<>>
           ELSE LET lastDot == CHOOSE i \in dots : \A j \in dots : j <= i
                IN IF lastDot = 1 THEN <<>> ELSE SubSeq(base, lastDot, Len(base))
  IN from(basename(p))

\* path.basename(p, ext)
basenameExt(p, ext) ==
  LET without(base) ==
        IF ext # <<>> /\ base # ext /\ Len(ext) <= Len(base)
           /\ SubSeq(base, Len(base) - Len(ext) + 1, Len(base)) = ext
        THEN SubSeq(base, 1, Len(base) - Len(ext))
        ELSE base
  IN without(basename(p))

\* statSync: the node at the path, if the kernel finds one
statKey(p) == stripSep(normalize(p))
statOk(w, p) ==
  LET found(key) == exists(w.fs, key) /\ (endsWithSep(p) => isDirAt(w.fs, key))
  IN p # <<>> /\ found(statKey(p))

\* splitOnUnescapedSpaces, lines 97-125: the loop from index i with `current` and `results`
RECURSIVE splitLoop(_, _, _, _)
splitLoop(input, i, current, results) ==
  IF i > Len(input)
  THEN IF current # <<>> THEN Append(results, current) ELSE results
  ELSE IF input[i] = "\\" /\ i + 1 <= Len(input) /\ input[i + 1] = " "
    THEN splitLoop(input, i + 2, current \o <<"\\", " ">>, results)
  ELSE IF input[i] = " "
    THEN IF current # <<>>
         THEN splitLoop(input, i + 1, <<>>, Append(results, current))
         ELSE splitLoop(input, i + 1, current, results)
  ELSE splitLoop(input, i + 1, Append(current, input[i]), results)

splitOnUnescapedSpaces(input) == splitLoop(input, 1, <<>>, <<>>)

\* rawPath.replace(/\\ /g, ' ')
RECURSIVE unescapeSpaces(_)
unescapeSpaces(s) ==
  IF s = <<>> THEN <<>>
  ELSE IF Len(s) >= 2 /\ s[1] = "\\" /\ s[2] = " "
    THEN <<" ">> \o unescapeSpaces(SubSeq(s, 3, Len(s)))
  ELSE <<Head(s)>> \o unescapeSpaces(Tail(s))

Letters == {"a", "b", "c", "d", "e", "f", "g", "h", "i", "j", "k", "l", "m", "n", "o",
            "p", "q", "r", "s", "t", "u", "v", "w", "x", "y", "z"} \cup UpperCase
Digits == {"0", "1", "2", "3", "4", "5", "6", "7", "8", "9"}

\* expanded.startsWith('/') || expanded.match(/^[A-Za-z]:\\/)
looksAbsolute(p) ==
  StartsWith(p, SEP)
  \/ (Len(p) >= 3 /\ p[1] \in Letters /\ p[2] = ":" /\ p[3] = "\\")

\* the body of the for loop of detectFilePaths for one raw path: the path kept, or <<>>
detectOne(w, rawPath) ==
  LET unescaped == unescapeSpaces(rawPath)
      expanded == IF StartsWith(unescaped, <<"~">>) THEN HOME \o Tail(unescaped)
                  ELSE unescaped
  IN IF unescaped = <<>> THEN <<>>
     ELSE IF ~looksAbsolute(expanded) THEN <<>>
     ELSE IF statOk(w, expanded) THEN <<expanded>>
     ELSE <<>>

RECURSIVE detectAll(_, _)
detectAll(w, rawPaths) ==
  IF rawPaths = <<>> THEN <<>>
  ELSE detectOne(w, Head(rawPaths)) \o detectAll(w, Tail(rawPaths))

detectFilePaths(w, input) == detectAll(w, splitOnUnescapedSpaces(Trim(input)))

getMimeType(ext) ==
  CASE ext = <<".", "p", "n", "g">> -> "image/png"
    [] ext = <<".", "j", "p", "g">> -> "image/jpeg"
    [] ext = <<".", "j", "p", "e", "g">> -> "image/jpeg"
    [] ext = <<".", "g", "i", "f">> -> "image/gif"
    [] ext = <<".", "w", "e", "b", "p">> -> "image/webp"
    [] ext = <<".", "b", "m", "p">> -> "image/bmp"
    [] ext = <<".", "s", "v", "g">> -> "image/svg+xml"
    [] ext = <<".", "p", "d", "f">> -> "application/pdf"
    [] ext = <<".", "t", "x", "t">> -> "text/plain"
    [] ext = <<".", "m", "d">> -> "text/markdown"
    [] ext = <<".", "j", "s", "o", "n">> -> "application/json"
    [] ext = <<".", "x", "m", "l">> -> "application/xml"
    [] ext = <<".", "c", "s", "v">> -> "text/csv"
    [] OTHER -> "application/octet-stream"

NoUpload ==
  [shouldUpload |-> FALSE, size |-> 0, filename |-> <<>>, mimeType |-> ""]

shouldAutoUpload(w, filePath) ==
  LET decide(stats, ext) ==
        IF stats.kind # "file" THEN NoUpload
        ELSE IF stats.size > MAX_FILE_SIZE THEN NoUpload
        ELSE IF ext \notin SUPPORTED_EXTENSIONS THEN NoUpload
        ELSE [shouldUpload |-> TRUE, size |-> stats.size,
              filename |-> basename(filePath), mimeType |-> getMimeType(ext)]
  IN IF ~statOk(w, filePath) THEN NoUpload
     ELSE decide(w.fs[statKey(filePath)], toLowerCase(extname(filePath)))

\* nameWithoutExt.replace(/\s+/g, '_').replace(/[^a-zA-Z0-9_-]/g, '')
RECURSIVE sanitize(_, _)
sanitize(s, inSpace) ==
  IF s = <<>> THEN <<>>
  ELSE IF Head(s) \in WhiteSpace
    THEN (IF inSpace THEN <<>> ELSE <<"_">>) \o sanitize(Tail(s), TRUE)
  ELSE IF Head(s) \in Letters \cup Digits \cup {"_", "-"}
    THEN <<Head(s)>> \o sanitize(Tail(s), FALSE)
  ELSE sanitize(Tail(s), FALSE)

generateUniqueFilename(originalFilename, timestamp) ==
  LET named(ext) ==
        sanitize(basenameExt(originalFilename, ext), FALSE)
        \o <<"-", ToString(timestamp)>> \o ext
  IN named(extname(originalFilename))

UPLOAD_DIR == <<"/workspace/.catty-uploads/">>

CeilDiv(a, b) == (a + b - 1) \div b

\* the length of buffer.toString('base64')
Base64Len(size) == 4 * CeilDiv(size, 3)

\* Math.ceil(base64Content.length / (CHUNK_SIZE * 1.34))
totalChunksOf(b64len) == CeilDiv(b64len * 100, CHUNK_SIZE * 134)

-----------------------------------------------------------------------------
(* Input relay: uploadFile, handlePastedContent, handleStdinData            *)
(* (websocket.ts lines 572-786).  A paste whose handler is suspended at an  *)
(* await is a task record; `micro` holds continuations that run when the    *)
(* current handler returns, `tasks` those that wait for a 1 ms timer.       *)

NoChunk ==
  [uploadId |-> <<>>, filename |-> <<>>, path |-> <<>>, mime |-> "",
   b64len |-> 0, total |-> 0, chunkSize |-> 0, i |-> 0]

PasteOrigin(n) == [n |-> n, ph |-> 1]

createFileUploadMessage(filename, remotePath, size, mimeType, origin) ==
  [bin |-> FALSE, type |-> "file_upload", data |-> <<filename, remotePath, mimeType>>,
   origin |-> origin,
   upload |-> [id |-> <<>>, index |-> 0, total |-> 0, from |-> 0, to |-> Base64Len(size)]]

\* createFileUploadChunkMessage on a slice whose end is not clamped to the length
createFileUploadChunkMessageUnclamped(c, origin) ==
  LET start == c.i * c.chunkSize
      end == start + c.chunkSize
  IN [bin |-> FALSE, type |-> "file_upload_chunk",
      data |-> <<c.filename, c.path, c.mime>>, origin |-> origin,
      upload |-> [id |-> c.uploadId, index |-> c.i, total |-> c.total,
                  from |-> start, to |-> end]]

createFileUploadChunkMessage(c, origin) ==
  LET start == c.i * c.chunkSize
      end == Min(start + c.chunkSize, c.b64len)
  IN [bin |-> FALSE, type |-> "file_upload_chunk",
      data |-> <<c.filename, c.path, c.mime>>, origin |-> origin,
      upload |-> [id |-> c.uploadId, index |-> c.i, total |-> c.total,
                  from |-> start, to |-> end]]

\* uploadFile up to its first await (or its return)
uploadFileStart(w, filePath, n) ==
  LET counted == [w EXCEPT !.hist.uploads = @ + 1]
      first(c) ==
        [w |-> wsSend(counted, createFileUploadChunkMessage(c, PasteOrigin(n))),
         suspended |-> 0 < c.total - 1, path |-> c.path,
         chunk |-> IF 0 < c.total - 1 THEN c ELSE NoChunk]
      chunked(uniqueFilename, mimeType, b64len, totalChunks) ==
        first([uploadId |-> <<ToString(w.now), ToString(w.hist.uploads)>>,
               filename |-> uniqueFilename, path |-> UPLOAD_DIR \o uniqueFilename,
               mime |-> mimeType, b64len |-> b64len, total |-> totalChunks,
               chunkSize |-> CeilDiv(b64len, totalChunks), i |-> 0])
      send(uniqueFilename, fileSize, mimeType) ==
        IF fileSize > CHUNK_SIZE
        THEN chunked(uniqueFilename, mimeType, Base64Len(fileSize),
                     totalChunksOf(Base64Len(fileSize)))
        ELSE [w |-> wsSend(counted,
                           createFileUploadMessage(uniqueFilename,
                                                   UPLOAD_DIR \o uniqueFilename,
                                                   fileSize, mimeType, PasteOrigin(n))),
              suspended |-> FALSE, path |-> UPLOAD_DIR \o uniqueFilename,
              chunk |-> NoChunk]
      upload(uploadInfo) ==
        IF ~uploadInfo.shouldUpload \/ uploadInfo.filename = <<>>
           \/ uploadInfo.mimeType = ""
        THEN [w |-> w, suspended |-> FALSE, path |-> <<>>, chunk |-> NoChunk]
        ELSE send(generateUniqueFilename(uploadInfo.filename, w.now), uploadInfo.size,
                  uploadInfo.mimeType)
  IN upload(shouldAutoUpload(w, filePath))

\* the tail of handlePastedContent sending the pasted text after the paths
pasteFinishBoth(w, t) ==
  IF t.uploaded # <<>>
  THEN wsSend(wsSend(w, BinaryFrame(Utf8Encode(JoinSpace(t.uploaded)), PasteOrigin(t.n))),
              BinaryFrame(Utf8Encode(t.content), PasteOrigin(t.n)))
  ELSE wsSend(w, BinaryFrame(Utf8Encode(t.content), PasteOrigin(t.n)))

\* the tail of handlePastedContent after the upload loop (lines 765-776)
pasteFinish(w, t) ==
  IF t.uploaded # <<>>
  THEN wsSend(w, BinaryFrame(Utf8Encode(JoinSpace(t.uploaded)), PasteOrigin(t.n)))
  ELSE wsSend(w, BinaryFrame(Utf8Encode(t.content), PasteOrigin(t.n)))

\* the `for (const filePath of filePaths)` loop of handlePastedContent, resumed
RECURSIVE pasteLoop(_, _)
pasteLoop(w, t) ==
  IF t.files = <<>> THEN pasteFinish(w, t)
  ELSE LET next(r) ==
             IF r.suspended
             THEN [r.w EXCEPT !.tasks = Append(@, [t EXCEPT !.chunk = r.chunk])]
             ELSE pasteLoop(r.w, [t EXCEPT !.files = Tail(@),
                                           !.uploaded = IF r.path # <<>>
                                                        THEN Append(@, r.path) ELSE @])
       IN next(uploadFileStart(w, Head(t.files), t.n))

\* uploadFile resumed by its 1 ms timer: the next iteration of the chunk loop
uploadFileResume(w, t) ==
  LET c == [t.chunk EXCEPT !.i = @ + 1]
      next(w1) ==
        IF c.i < c.total - 1
        THEN [w1 EXCEPT !.tasks = Append(@, [t EXCEPT !.chunk = c])]
        ELSE pasteLoop(w1, [t EXCEPT !.files = Tail(@),
                                     !.uploaded = Append(@, c.path),
                                     !.chunk = NoChunk])
  IN next(wsSend(w, createFileUploadChunkMessage(c, PasteOrigin(t.n))))

\* handlePastedContent up to its first await (or its return)
handlePastedContent(w, content, n) ==
  LET w0 == [w EXCEPT !.hist.pastes = Append(@, [n |-> n, content |-> content])]
      t0(filePaths) ==
        [attempt |-> w.conn.id, content |-> content, n |-> n,
         files |-> filePaths, uploaded |-> <<>>, chunk |-> NoChunk]
      next(r, filePaths) ==
        IF r.suspended
        THEN [r.w EXCEPT !.tasks = Append(@, [t0(filePaths) EXCEPT !.chunk = r.chunk])]
        ELSE [r.w EXCEPT !.micro =
                Append(@, [t0(filePaths) EXCEPT !.files = Tail(@),
                                                 !.uploaded = IF r.path # <<>>
                                                              THEN <<r.path>> ELSE <<>>])]
      loop(filePaths) ==
        IF filePaths # <<>>
        THEN next(uploadFileStart(w0, Head(filePaths), n), filePaths)
        ELSE wsSend(w0, BinaryFrame(Utf8Encode(content), PasteOrigin(n)))
  IN IF content = <<>> \/ Trim(content) = <<>> THEN w0
     ELSE loop(detectFilePaths(w0, content))

\* the continuations queued behind the running handler
RECURSIVE drainMicro(_)
drainMicro(w) ==
  IF w.micro = <<>> THEN w
  ELSE drainMicro(pasteLoop([w EXCEPT !.micro = Tail(@)], Head(w.micro)))

CTRL_C == "^C"

\* the paste branch of handleStdinData (lines 602-661), on the decoded text
demultiplex(w, data, n) ==
  LET rest(w2, afterEnd) ==
        IF afterEnd # <<>>
        THEN wsSend(w2, BinaryFrame(Utf8Encode(afterEnd), [n |-> n, ph |-> 2]))
        ELSE w2
      ended(w1, afterStart, pasteEndIdx) ==
        IF pasteEndIdx # -1
        THEN rest(handlePastedContent(w1, Slice(afterStart, 0, pasteEndIdx), n),
                  SliceFrom(afterStart, pasteEndIdx + Len(PASTE_END)))
        ELSE [w1 EXCEPT !.conn.inPaste = TRUE, !.conn.pasteBuffer = afterStart]
      started(str, pasteStartIdx) ==
        IF pasteStartIdx = -1
        THEN wsSend(w, BinaryFrame(data, [n |-> n, ph |-> 0]))
        ELSE ended(IF pasteStartIdx > 0
                   THEN wsSend(w, BinaryFrame(Utf8Encode(Slice(str, 0, pasteStartIdx)),
                                              [n |-> n, ph |-> 0]))
                   ELSE w,
                   SliceFrom(str, pasteStartIdx + Len(PASTE_START)),
                   IndexOf(SliceFrom(str, pasteStartIdx + Len(PASTE_START)), PASTE_END))
      handed(buffer) ==
        [handlePastedContent([w EXCEPT !.conn.pasteBuffer = buffer,
                                       !.conn.inPaste = FALSE], buffer, n)
           EXCEPT !.conn.pasteBuffer = <<>>]
      buffered(str, pasteEndIdx) ==
        IF pasteEndIdx = -1
        THEN [w EXCEPT !.conn.pasteBuffer = @ \o str]
        ELSE rest(handed(w.conn.pasteBuffer \o Slice(str, 0, pasteEndIdx)),
                  SliceFrom(str, pasteEndIdx + Len(PASTE_END)))
  IN IF ~w.conn.inPaste
     THEN started(Utf8Decode(data), IndexOf(Utf8Decode(data), PASTE_START))
     ELSE buffered(Utf8Decode(data), IndexOf(Utf8Decode(data), PASTE_END))

\* handleStdinData with the window closed at its upper end
handleStdinDataInclusiveWindow(w, data, n) ==
  IF w.ws.readyState # "OPEN" THEN w
  ELSE
    LET hasCtrlC == \E i \in 1..Len(data) : data[i] = CTRL_C
    IN IF hasCtrlC /\ w.now - w.conn.lastCtrlC <= DOUBLE_CTRLC_MS
       THEN LET w1 == [w EXCEPT !.conn.userInterrupted = TRUE]
                w2 == IF w1.conn.syncBack THEN stderrWrite(w1, SYNC_PAUSED) ELSE w1
                w3 == wsClose(cleanup(w2))
            IN safeResolve(w3, InterruptedResult)
       ELSE demultiplex(IF hasCtrlC THEN [w EXCEPT !.conn.lastCtrlC = w.now] ELSE w,
                        data, n)

\* the stdin data listener; n is the ordinal of the chunk
handleStdinData(w, data, n) ==
  IF w.ws.readyState # "OPEN" THEN w
  ELSE
    LET hasCtrlC == \E i \in 1..Len(data) : data[i] = CTRL_C
    IN IF hasCtrlC /\ w.now - w.conn.lastCtrlC < DOUBLE_CTRLC_MS
       THEN LET w1 == [w EXCEPT !.conn.userInterrupted = TRUE]
                w2 == IF w1.conn.syncBack THEN stderrWrite(w1, SYNC_PAUSED) ELSE w1
                w3 == wsClose(cleanup(w2))
            IN safeResolve(w3, InterruptedResult)
       ELSE demultiplex(IF hasCtrlC THEN [w EXCEPT !.conn.lastCtrlC = w.now] ELSE w,
                        data, n)

-----------------------------------------------------------------------------
(* Process exit, signals and faults (terminal.ts lines 8-64, node)          *)

\* the listeners of the process exit event, in registration order
RECURSIVE runExitListeners(_, _)
runExitListeners(w, ls) ==
  IF ls = <<>> THEN w
  ELSE LET l == Head(ls)
           w1 == IF l.h = "terminal" THEN terminalCleanup(w)
                 ELSE IF l.id = w.conn.id THEN relayOnProcessExit(w)
                 ELSE w
       IN runExitListeners(w1, Tail(ls))

\* process.exit(code)
processExit(w, code, by) ==
  IF w.proc.exited THEN w
  ELSE LET exit(w1) ==
             [w1 EXCEPT !.proc.exited = TRUE, !.proc.exitCode = code,
                        !.hist.exits = Append(@, [code |-> code, by |-> by,
                                                  raw |-> w1.proc.rawMode,
                                                  attempt |-> w1.conn.id])]
       IN exit(runExitListeners(w, w.proc.exitListeners))

\* death by a signal nobody listens to: no exit event, the tty is left as it is
killedBySignal(w, code) ==
  [w EXCEPT !.proc.exited = TRUE, !.proc.exitCode = code,
            !.hist.exits = Append(@, [code |-> code, by |-> "signal",
                                      raw |-> w.proc.rawMode,
                                      attempt |-> w.conn.id])]

\* the SIGINT listeners, in registration order; the relay's is a once-listener
RECURSIVE runSigint(_, _)
runSigint(w, ls) ==
  IF ls = <<>> \/ w.proc.exited THEN w
  ELSE LET l == Head(ls)
       IN IF l.h = "terminal"
          THEN runSigint(processExit(terminalCleanup(w), 130, "terminal"), Tail(ls))
          ELSE LET w1 == [w EXCEPT !.proc.sigint = RemoveListener(@, l)]
                   w2 == IF l.id = w.conn.id THEN handleSigint(w1) ELSE w1
               IN runSigint(w2, Tail(ls))

onSIGINT(w) ==
  IF w.proc.sigint = <<>> THEN killedBySignal(w, 130)
  ELSE runSigint(w, w.proc.sigint)

RECURSIVE runSigquit(_, _)
runSigquit(w, ls) ==
  IF ls = <<>> THEN w
  ELSE LET l == Head(ls)
           w1 == [w EXCEPT !.proc.sigquit = RemoveListener(@, l)]
           w2 == IF l.id = w.conn.id THEN handleSigquit(w1) ELSE w1
       IN runSigquit(w2, Tail(ls))

onSIGQUIT(w) ==
  IF w.proc.sigquit = <<>> THEN killedBySignal(w, 131)
  ELSE runSigquit(w, w.proc.sigquit)

onSIGTERM(w) ==
  IF w.proc.globalHandlersRegistered
  THEN processExit(terminalCleanup(w), 143, "terminal")
  ELSE killedBySignal(w, 143)

onSIGHUP(w) ==
  IF w.proc.globalHandlersRegistered
  THEN processExit(terminalCleanup(w), 129, "terminal")
  ELSE killedBySignal(w, 129)

\* SIGTSTP: restore, then process.kill(pid, 'SIGTSTP'), which the handler itself
\* receives again
onSIGTSTP(w) ==
  IF w.proc.globalHandlersRegistered
  THEN [terminalCleanup(w) EXCEPT !.hist.tstp = @ + 1]
  ELSE [w EXCEPT !.proc.stopped = TRUE]

SESSION_SUSPENDED == "Session suspended"

\* SIGCONT: the message is for an active terminal that is not raw and has not
\* been cleaned up
onSIGCONT(w) ==
  LET w1 == [w EXCEPT !.proc.stopped = FALSE]
  IN IF w1.proc.globalHandlersRegistered /\ w1.proc.activeTerminal # 0
        /\ ~w1.terminals[w1.proc.activeTerminal].wasRaw
        /\ ~w1.terminals[w1.proc.activeTerminal].cleanupDone
     THEN stderrWrite(w1, SESSION_SUSPENDED)
     ELSE w1

\* uncaughtException / unhandledRejection
onFault(w) ==
  IF w.proc.globalHandlersRegistered
  THEN processExit(stderrWrite(terminalCleanup(w), "Fatal error"), 1, "terminal")
  ELSE processExit(w, 1, "node")

-----------------------------------------------------------------------------
(* connectToSession, up to the promise it returns (websocket.ts 438-560,    *)
(* 805-868)                                                                 *)

\* hist.ack before the attempt has asked for sync-back: the times of the request
\* and of the first sync_back_ack (-1: none)
NoAck == [requestedAt |-> -1, ackAt |-> -1]

\* hist.timer before any timer of the attempt has fired
NoTimer ==
  [kind |-> "", at |-> 0, due |-> 0, opened |-> FALSE, closed |-> FALSE,
   sinceFrame |-> 0, produced |-> <<>>, delivered |-> <<>>, terminated |-> FALSE,
   readyState |-> ""]

NewConn(id, syncBack, t) ==
  [id |-> id, syncBack |-> syncBack, exitCode |-> 0,
   connectionClosed |-> FALSE, connectionOpened |-> FALSE,
   userInterrupted |-> FALSE, resolved |-> FALSE,
   inPaste |-> FALSE, pasteBuffer |-> <<>>, lastCtrlC |-> 0,
   lastDataReceived |-> t,
   connectionTimeout |-> t + HANDSHAKE_TIMEOUT_MS,
   healthCheckInterval |-> t + HEALTH_CHECK_INTERVAL_MS,
   resizeOn |-> FALSE, stdinOn |-> FALSE, promise |-> NoResult]

\* the state before any attempt: no timers, no promise
NoConn ==
  [NewConn(0, FALSE, 0) EXCEPT !.connectionTimeout = -1, !.healthCheckInterval = -1]

connectToSession(w, syncBack, urlOk) ==
  LET id == Len(w.terminals) + 1
      w0 == [w EXCEPT !.hist.calls = @ + 1]
  IN IF ~isTerminal(w0) \/ ~urlOk
     THEN [thrown |-> TRUE, w |-> w0]
     ELSE [thrown |-> FALSE,
           w |-> [w0 EXCEPT !.terminals = Append(@, NewTerminal),
                            !.conn = NewConn(id, syncBack, w.now),
                            !.ws = NewWebSocket,
                            !.proc.sigint = Append(@, RelayListener(id)),
                            !.proc.sigquit = Append(@, RelayListener(id)),
                            !.proc.exitListeners = Append(@, RelayListener(id)),
                            !.hist.connects = @ + 1,
                            !.hist.delivered = <<>>, !.hist.produced = <<>>,
                            !.hist.stderr = <<>>, !.hist.closes = <<>>,
                            !.hist.chunks = <<>>, !.hist.pastes = <<>>,
                            !.hist.parsed = <<>>,
                            !.hist.timer = NoTimer, !.hist.lastFrameAt = w.now,
                            !.hist.closeCalls = <<>>, !.hist.open = <<>>,
                            !.hist.ack = NoAck,
                            !.hist.attemptAt = w.now]]

-----------------------------------------------------------------------------
(* The commands' reconnect loops (connect.ts 26-119, new.ts 218-281)        *)

\* what a step of the command's loop comes to: the loop goes on in w, or
\* process.exit(code) is called in w
Continues(w) == [exit |-> FALSE, code |-> 0, w |-> w]
ProcessExits(w, code) == [exit |-> TRUE, code |-> code, w |-> w]

settle(step) ==
  CHOOSE w \in {IF s.exit THEN processExit(s.w, s.code, "command") ELSE s.w :
                s \in {step}} : TRUE

\* await sleep(RECONNECT_DELAY_MS)
sleep(w, pc) ==
  [w EXCEPT !.sup.pc = pc, !.sup.wakeAt = w.now + RECONNECT_DELAY_MS]

\* the catch block retrying whatever the counter holds
loopCatchAlwaysRetries(w) ==
  IF w.sup.autoReconnect
  THEN IF w.sup.reconnectAttempts + 1 > MAX_RECONNECT_ATTEMPTS
       THEN ProcessExits(stderrWrite([w EXCEPT !.sup.reconnectAttempts = @ + 1],
                                     "Failed to reconnect"), 1)
       ELSE Continues(sleep(stderrWrite([w EXCEPT !.sup.reconnectAttempts = @ + 1],
                                        "Reconnect failed, retrying"), "sleepCatch"))
  ELSE ProcessExits(stderrWrite(w, "Error"), 1)

\* the catch block at the bottom of either loop; a rethrown error reaches main(),
\* which prints it and exits with status 1
loopCatch(w) ==
  IF w.sup.reconnectAttempts > 0 /\ w.sup.autoReconnect
  THEN IF w.sup.reconnectAttempts + 1 > MAX_RECONNECT_ATTEMPTS
       THEN ProcessExits(stderrWrite([w EXCEPT !.sup.reconnectAttempts = @ + 1],
                                     "Failed to reconnect"), 1)
       ELSE Continues(sleep(stderrWrite([w EXCEPT !.sup.reconnectAttempts = @ + 1],
                                        "Reconnect failed, retrying"), "sleepCatch"))
  ELSE ProcessExits(stderrWrite(w, "Error"), 1)

\* the result handling with every outcome treated as a lost connection
connectOnResultRetryAll(w, result) ==
  IF ~w.sup.autoReconnect
  THEN ProcessExits(stderrWrite(w, "Disconnected"), 1)
  ELSE IF w.sup.reconnectAttempts + 1 > MAX_RECONNECT_ATTEMPTS
    THEN ProcessExits(stderrWrite([w EXCEPT !.sup.reconnectAttempts = @ + 1],
                                  "Failed to reconnect"), 1)
    ELSE Continues(sleep([w EXCEPT !.sup.reconnectAttempts = @ + 1], "sleep"))

\* the result handling with the ceiling compared one attempt late
connectOnResultLateCeiling(w, result) ==
  CASE result.type = "exit" -> ProcessExits(w, result.code)
    [] result.type = "interrupted" -> ProcessExits(w, 130)
    [] result.type = "replaced" -> ProcessExits(w, 0)
    [] OTHER ->
         IF ~w.sup.autoReconnect
         THEN ProcessExits(stderrWrite(w, "Disconnected"), 1)
         ELSE IF w.sup.reconnectAttempts + 1 > MAX_RECONNECT_ATTEMPTS + 1
           THEN ProcessExits(stderrWrite([w EXCEPT !.sup.reconnectAttempts = @ + 1],
                                         "Failed to reconnect"), 1)
           ELSE Continues(sleep([w EXCEPT !.sup.reconnectAttempts = @ + 1], "sleep"))

\* the result handling reconnecting whether or not auto-reconnect is on
connectOnResultAlwaysReconnect(w, result) ==
  CASE result.type = "exit" -> ProcessExits(w, result.code)
    [] result.type = "interrupted" -> ProcessExits(w, 130)
    [] result.type = "replaced" -> ProcessExits(w, 0)
    [] OTHER ->
         IF w.sup.reconnectAttempts + 1 > MAX_RECONNECT_ATTEMPTS
         THEN ProcessExits(stderrWrite([w EXCEPT !.sup.reconnectAttempts = @ + 1],
                                       "Failed to reconnect"), 1)
         ELSE Continues(sleep([w EXCEPT !.sup.reconnectAttempts = @ + 1], "sleep"))

\* connect.ts lines 77-105: what the command does with the attempt's result
connectOnResult(w, result) ==
  CASE result.type = "exit" -> ProcessExits(w, result.code)
    [] result.type = "interrupted" -> ProcessExits(w, 130)
    [] result.type = "replaced" -> ProcessExits(w, 0)
    [] OTHER ->
         IF ~w.sup.autoReconnect
         THEN ProcessExits(stderrWrite(w, "Disconnected"), 1)
         ELSE IF w.sup.reconnectAttempts + 1 > MAX_RECONNECT_ATTEMPTS
           THEN ProcessExits(stderrWrite([w EXCEPT !.sup.reconnectAttempts = @ + 1],
                                         "Failed to reconnect"), 1)
           ELSE Continues(sleep([w EXCEPT !.sup.reconnectAttempts = @ + 1], "sleep"))

\* new.ts lines 227-256
newOnResult(w, result) ==
  CASE result.type = "exit" -> ProcessExits(w, result.code)
    [] result.type = "interrupted" -> ProcessExits(w, 130)
    [] result.type = "replaced" -> ProcessExits(w, 0)
    [] OTHER ->
         IF ~w.sup.autoReconnect
         THEN ProcessExits(stderrWrite(w, "Disconnected"), 1)
         ELSE IF w.sup.reconnectAttempts + 1 > MAX_RECONNECT_ATTEMPTS
           THEN ProcessExits(stderrWrite([w EXCEPT !.sup.reconnectAttempts = @ + 1],
                                         "Failed to reconnect"), 1)
           ELSE Continues(sleep([w EXCEPT !.sup.reconnectAttempts = @ + 1], "sleep"))

\* the `session` variable of a command: n is the lookup (0: the creation) that
\* returned it, headers whether it has a `headers` property with the routing
\* header. A CreateSessionResponse has one, a SessionInfo has none.
NoSession == [n |-> -1, headers |-> FALSE]
CreateSessionResponse(n) == [n |-> n, headers |-> TRUE]
SessionInfo(n) == [n |-> n, headers |-> FALSE]

\* the call of connectToSession inside the try of either loop
loopConnect(w, syncBack) ==
  LET attach(r) ==
        IF r.thrown THEN loopCatch(r.w)
        ELSE Continues([r.w EXCEPT !.sup.pc = "attached"])
      \* the options of the call: connect.ts builds the routing header from
      \* session.machine_id, new.ts passes session.headers
      opts == [call |-> w.hist.calls + 1, token |-> w.sup.session.n,
               routing |-> IF w.sup.cmd = "connect" THEN TRUE
                           ELSE w.sup.session.headers]
  IN attach(connectToSession([w EXCEPT !.hist.opts = opts], syncBack, w.sup.urlOk))

\* the loop body of connect without the check of the machine state
connectAfterLookupAnyMachine(w, o) ==
  IF o.throws THEN loopCatch(w)
  ELSE IF o.status = "timed_out"
    THEN IF o.logsThrow THEN loopCatch(w) ELSE ProcessExits(w, 0)
  ELSE IF o.status = "stopped" THEN loopCatch(w)
  ELSE loopConnect([w EXCEPT !.sup.urlOk = o.urlOk,
                            !.sup.session = SessionInfo(w.hist.lookups)],
                   w.sup.syncBack)

\* connect.ts lines 29-75: the loop body once getSession has settled
connectAfterLookup(w, o) ==
  IF o.throws THEN loopCatch(w)
  ELSE IF o.status = "timed_out"
    THEN IF o.logsThrow THEN loopCatch(w) ELSE ProcessExits(w, 0)
  ELSE IF o.status = "stopped" THEN loopCatch(w)
  ELSE IF o.machine_state # "" /\ o.machine_state # "started" THEN loopCatch(w)
  ELSE loopConnect([w EXCEPT !.sup.urlOk = o.urlOk,
                            !.sup.session = SessionInfo(w.hist.lookups)],
                   w.sup.syncBack)

\* new.ts lines 258-267: the refresh of the session after the delay, then the
\* next iteration of the loop
newAfterRefresh(w, o) ==
  IF ~o.throws /\ o.status = "stopped"
  THEN ProcessExits(stderrWrite(w, "Session has stopped"), 1)
  ELSE loopConnect(IF o.throws THEN w
                   ELSE [w EXCEPT !.sup.urlOk = o.urlOk,
                                  !.sup.session = SessionInfo(w.hist.lookups)],
                   FALSE)

\* new.ts before the loop: the session is created and the workspace uploaded
newAfterCreate(w, o) ==
  IF o.throws THEN ProcessExits(stderrWrite(w, "Error"), 1)
  ELSE loopConnect([w EXCEPT !.sup.urlOk = o.urlOk,
                            !.sup.session = CreateSessionResponse(w.hist.lookups)],
                   FALSE)

\* the continuation of `await connectToSession(...)`, run once the promise is settled
supContinue(w) ==
  IF ~w.proc.exited /\ w.sup.pc = "attached" /\ w.conn.promise.type # "none"
  THEN settle(IF w.sup.cmd = "connect" THEN connectOnResult(w, w.conn.promise)
              ELSE newOnResult(w, w.conn.promise))
  ELSE w

\* the end of sleep(RECONNECT_DELAY_MS): the next thing either loop does
afterSleep(w) ==
  IF w.sup.cmd = "connect"
  THEN Continues([w EXCEPT !.sup.pc = "lookup", !.hist.lookups = @ + 1])
  ELSE IF w.sup.pc = "sleep"
    THEN Continues([w EXCEPT !.sup.pc = "refresh", !.hist.lookups = @ + 1])
  ELSE loopConnect(w, FALSE)

-----------------------------------------------------------------------------
(* The state as one record, so that handlers are functions of it            *)

W ==
  [now |-> now, conn |-> conn, ws |-> ws, terminals |-> terminals, proc |-> proc,
   sup |-> sup, tasks |-> tasks, fs |-> fs, hist |-> hist, micro |-> <<>>]

\* the handlers' result becomes the next state (v is w, computed once)
Commit(w) ==
  \E v \in {w} :
    /\ now' = v.now
    /\ conn' = v.conn
    /\ ws' = v.ws
    /\ terminals' = v.terminals
    /\ proc' = v.proc
    /\ sup' = v.sup
    /\ tasks' = v.tasks
    /\ fs' = v.fs
    /\ hist' = v.hist

\* the end of a turn of the event loop in which the attempt's promise may have
\* been settled: the command's await continues
Turn(w) == \E v \in {w} : Commit(supContinue(v))

Running == ~proc.exited /\ ~proc.stopped

-----------------------------------------------------------------------------
(* Initial state: the command has parsed its options and started            *)

PNG == <<".", "p", "n", "g">>
TXT == <<".", "t", "x", "t">>
ZIP == <<".", "z", "i", "p">>

SmallImage == <<"/", "a">> \o PNG
ChunkedText == <<"/", "b">> \o TXT
HugeImage == <<"/", "c">> \o PNG
Archive == <<"/", "d">> \o ZIP
Sibling == CWD \o <<"2">>
LocalFile == CWD \o <<"/", "f">>

InitFs ==
  (SEP :> DirNode) @@ (CWD :> DirNode) @@ (HOME :> DirNode) @@ (Sibling :> DirNode)
  @@ (LocalFile :> FileNode(<<"x">>, 420, 1))
  @@ (SmallImage :> FileNode(<<>>, 420, 100))
  @@ (ChunkedText :> FileNode(<<>>, 420, CHUNK_SIZE + 1000))
  @@ (HugeImage :> FileNode(<<>>, 420, MAX_FILE_SIZE + 1))
  @@ (Archive :> FileNode(<<>>, 420, 100))

\* hist.late before any frame has been dispatched after the closed flag was set
NoLate ==
  [seen |-> FALSE, type |-> "", readyState |-> "", stderr |-> <<>>, sent |-> 0,
   fsChanged |-> FALSE, produced |-> <<>>, delivered |-> <<>>]

\* hist.signal before any signal
NoSignal ==
  [sig |-> "", attempt |-> 0, pending |-> FALSE, open |-> FALSE, wasRaw |-> FALSE,
   delivered |-> <<>>, closeCalls |-> <<>>, raw |-> FALSE, exited |-> FALSE]

\* hist.suspend before any SIGTSTP
NoSuspend ==
  [tstp |-> FALSE, tstpRaw |-> FALSE, cont |-> FALSE, attached |-> FALSE,
   raw |-> FALSE, message |-> FALSE]

\* hist.lookup before any lookup has settled
NoLookup ==
  [n |-> 0, ok |-> -1, o |-> [throws |-> FALSE, status |-> "", machine_state |-> "",
                   urlOk |-> FALSE, logsThrow |-> FALSE]]

InitHist(lookups) ==
  [stderr |-> <<>>, restoreWrites |-> 0, mutations |-> <<>>, delivered |-> <<>>,
   produced |-> <<>>, stdoutWrites |-> 0, uploads |-> 0, pastes |-> <<>>,
   exits |-> <<>>, tstp |-> 0, calls |-> 0, connects |-> 0, lookups |-> lookups,
   chunks |-> <<>>, applied |-> <<>>, closes |-> <<>>,
   crashed |-> <<>>, parsed |-> <<>>, thrown |-> <<>>, nStdin |-> 0, nInputs |-> 0,
   timer |-> NoTimer, lastFrameAt |-> 0, attemptAt |-> 0, restores |-> <<>>,
   suspend |-> NoSuspend, closeCalls |-> <<>>, signal |-> NoSignal, late |-> NoLate,
   open |-> <<>>, ack |-> NoAck, lookup |-> NoLookup,
   opts |-> [call |-> 0, token |-> -1, routing |-> FALSE],
   stopped |-> [seen |-> FALSE, cmd |-> "", calls |-> 0, lookups |-> 0]]

InitProc(isTTY) ==
  [isTTY |-> isTTY, rawMode |-> FALSE, bracketedPaste |-> FALSE, cursorShown |-> TRUE,
   activeTerminal |-> 0, globalHandlersRegistered |-> FALSE,
   exitListeners |-> <<>>, sigint |-> <<>>, sigquit |-> <<>>,
   exited |-> FALSE, exitCode |-> 0, stopped |-> FALSE, cols |-> 80, rows |-> 24]

InitSup(cmd, autoReconnect, syncBack) ==
  [cmd |-> cmd, pc |-> IF cmd = "connect" THEN "lookup" ELSE "create",
   reconnectAttempts |-> 0, autoReconnect |-> autoReconnect, syncBack |-> syncBack,
   urlOk |-> TRUE, wakeAt |-> 0, session |-> NoSession]

InitWith(cmds, ttys, autos, syncs) ==
  /\ now = StartTime
  /\ conn = NoConn
  /\ ws = [NewWebSocket EXCEPT !.readyState = "CLOSED"]
  /\ terminals = <<>>
  /\ tasks = <<>>
  /\ fs = InitFs
  /\ \E isTTY \in ttys : proc = InitProc(isTTY)
  /\ \E cmd \in cmds, autoReconnect \in autos, syncBack \in syncs :
       /\ cmd = "new" => ~syncBack
       /\ sup = InitSup(cmd, autoReconnect, syncBack)
       /\ hist = InitHist(IF cmd = "connect" THEN 1 ELSE 0)


-----------------------------------------------------------------------------
(* Inputs *)

OkSession ==
  [throws |-> FALSE, status |-> "running", machine_state |-> "started",
   urlOk |-> TRUE, logsThrow |-> FALSE]

LookupOutcomes ==
  {OkSession,
   [OkSession EXCEPT !.throws = TRUE],
   [OkSession EXCEPT !.status = "stopped"],
   [OkSession EXCEPT !.status = "timed_out"],
   [OkSession EXCEPT !.status = "timed_out", !.logsThrow = TRUE],
   [OkSession EXCEPT !.machine_state = "stopped"],
   [OkSession EXCEPT !.machine_state = ""],
   [OkSession EXCEPT !.urlOk = FALSE]}

BinaryInbound == [bin |-> TRUE, text |-> <<>>]
TextFrame(text) == [bin |-> FALSE, text |-> text]

\* the object the remote side encodes for a message with the given fields
wireObject(msg) ==
  CASE msg.type = "exit" ->
         <<Prop("type", Str(<<"exit">>)), Prop("code", Num(msg.code)),
           Prop("signal", Null)>>
    [] msg.type = "error" ->
         <<Prop("type", Str(<<"error">>)), Prop("message", Str(<<msg.message>>))>>
    [] msg.type = "file_change" ->
         <<Prop("type", Str(<<"file_change">>)), Prop("action", Str(<<msg.action>>)),
           Prop("path", IF msg.hasPath THEN Str(msg.path) ELSE Undefined),
           Prop("content", IF msg.content = "" THEN Undefined ELSE Str(<<msg.content>>)),
           Prop("mode", IF msg.mode = 0 THEN Undefined ELSE Num(msg.mode))>>
    [] OTHER -> <<Prop("type", Str(<<msg.type>>))>>

TextInbound(msg) == TextFrame(JSONstringify(wireObject(msg)))

\* texts JSON.parse rejects, the text `null`, and a text that is a number
MalformedInbound == TextFrame(<<"{", QUOTE, "type", QUOTE, ":">>)
NotJsonInbound == TextFrame(<<"h", "i">>)
NullInbound == TextFrame(<<"null">>)
ScalarInbound == TextFrame(<<"4", "2">>)

ExitMessage(code) == [Msg("exit") EXCEPT !.code = code]

RelayFrames ==
  {BinaryInbound, MalformedInbound, NotJsonInbound, NullInbound, ScalarInbound,
   TextInbound(Msg("ping")),
   TextInbound(ExitMessage(0)), TextInbound(ExitMessage(2))}

FileChangeMessage(path, action, content, mode) ==
  [Msg("file_change") EXCEPT !.path = path, !.action = action,
                             !.content = content, !.mode = mode]

DOTDOT == <<".", ".">>

\* the name the writer gives its temp file when the clock reads StartTime
TmpName == <<".catty-sync-" \o ToString(StartTime)>>

SyncPaths ==
  {<<"g">>, <<"f">>, <<"d", "/", "g">>, <<".", "/", "g">>,
   <<"d", "/">> \o DOTDOT \o <<"/", "g">>,
   DOTDOT \o <<"/", "w", "2", "/", "g">>,
   DOTDOT \o <<"/", "g">>,
   DOTDOT,
   TmpName,
   <<"/", "e">>,
   <<"f", "/", "g">>,
   WORKSPACE_PREFIX \o <<"/", "g">>,
   WORKSPACE_PREFIX \o <<"/">> \o DOTDOT \o <<"/", "w", "2", "/", "g">>}

FileChanges ==
  {FileChangeMessage(path, "write", "QQ==", 0) : path \in SyncPaths}
  \cup {FileChangeMessage(path, "delete", "", 0) : path \in SyncPaths}
  \cup {FileChangeMessage(<<"g">>, "write", "QkI=", 493),
        FileChangeMessage(<<"g">>, "write", "", 0),
        [FileChangeMessage(<<>>, "write", "QQ==", 0) EXCEPT !.hasPath = FALSE]}

CloseEvents ==
  {[code |-> WS_POLICY_VIOLATION, reason |-> ""],
   [code |-> 1000, reason |-> ""],
   [code |-> 1001, reason |-> "going away"]}

Signals == {"SIGINT", "SIGQUIT", "SIGTERM", "SIGHUP", "SIGTSTP", "SIGCONT"}

TickSteps ==
  {DOUBLE_CTRLC_MS \div 2, DOUBLE_CTRLC_MS, HANDSHAKE_TIMEOUT_MS, CLIENT_TIMEOUT_MS + 1}

KeyChunks == {<<"a">>, <<CTRL_C>>}

PastePayloads ==
  {<<>>, <<"h", "i">>, <<" ">>, <<CTRL_C>>, <<"C3", "A9">>,
   SmallImage, ChunkedText, HugeImage, Archive,
   SmallImage \o <<" ">> \o Archive,
   HugeImage \o <<" ">> \o SmallImage}

\* what the terminal writes to stdin: keys, whole pastes (alone, with bytes
\* around them, two in a row) and the pieces of a paste split over chunks
PasteChunks ==
  KeyChunks
  \cup {PASTE_START \o c \o PASTE_END : c \in PastePayloads}
  \cup {<<"a">> \o PASTE_START \o <<"h">> \o PASTE_END \o <<"b">>,
        <<"C3", "A9">> \o PASTE_START \o <<"h">> \o PASTE_END \o <<"C3", "A9">>,
        PASTE_START \o SmallImage \o PASTE_END \o <<"b">>,
        PASTE_START \o ChunkedText \o PASTE_END \o <<"b">>,
        PASTE_START \o <<"h">> \o PASTE_END \o PASTE_START \o <<"i">> \o PASTE_END}

\* the pieces of pastes that the terminal splits over several chunks
PieceChunks ==
  KeyChunks
  \cup {<<"a">> \o PASTE_START \o <<"h">>, PASTE_START \o <<"C3">>,
        PASTE_START \o <<CTRL_C>>,
        <<"i">>, <<"A9">>, <<"j">> \o PASTE_END \o <<"b">>, PASTE_END}

\* well-formed control messages of every known type
TypeOnly(type) == <<Prop("type", Str(<<type>>))>>

WellFormedMessages ==
  {TypeOnly("ping"), TypeOnly("pong"), TypeOnly("ready")}
  \cup {<<Prop("type", Str(<<"resize">>)), Prop("cols", Num(c)), Prop("rows", Num(r))>> :
          c \in {0, 80, 120}, r \in {24, 1000}}
  \cup {<<Prop("type", Str(<<"signal">>)), Prop("name", Str(<<"SIGINT">>))>>}
  \cup {<<Prop("type", Str(<<"exit">>)), Prop("code", Num(c)), Prop("signal", sig)>> :
          c \in {0, 2, 130}, sig \in {Null, Str(<<"SIGKILL">>)}}
  \cup {<<Prop("type", Str(<<"error">>)), Prop("message", Str(text))>> :
          text \in {<<>>, <<"b", "a", "d">>, <<"a", QUOTE, "b">>, <<BACKSLASH, "n">>,
                    <<"{", "}">>, <<"9">>, <<"null">>}}
  \cup {<<Prop("type", Str(<<"sync_back">>)), Prop("enabled", Bool(e))>> : e \in BOOLEAN}
  \cup {<<Prop("type", Str(<<"sync_back_ack">>)), Prop("enabled", Bool(e))>>
          \o dir \o ms :
          e \in BOOLEAN, dir \in {<<>>, <<Prop("workspace_dir", Str(CWD))>>},
          ms \in {<<>>, <<Prop("interval_ms", Num(2000))>>}}
  \cup {<<Prop("type", Str(<<"file_change">>)), Prop("action", Str(<<"delete">>)),
          Prop("path", Str(path))>> : path \in {<<"g">>, <<"d", "/", "g">>}}
  \cup {<<Prop("type", Str(<<"file_change">>)), Prop("action", Str(<<"write">>)),
          Prop("path", Str(<<"g">>))>> \o content \o mode :
          content \in {<<>>, <<Prop("content", Str(<<"QQ==">>))>>,
                       <<Prop("content", Str(<<>>))>>},
          mode \in {<<>>, <<Prop("mode", Num(493))>>, <<Prop("mode", Num(0))>>}}

\* the texts the relay's own encoders produce
EncodedByRelay ==
  {createResizeMessage(80, 24).data, createResizeMessage(120, 24).data,
   createPongMessage.data, createSyncBackMessage(TRUE).data,
   createSyncBackMessage(FALSE).data}

-----------------------------------------------------------------------------
(* Actions: one per event the process can receive                           *)

\* getSession (or createSession and the upload, for `new`) settles
LookupReturns(o) ==
  /\ Running
  /\ sup.pc \in {"lookup", "refresh", "create"}
  /\ LET settled == [n |-> hist.lookups, o |-> o,
                     ok |-> IF o.throws THEN hist.lookup.ok ELSE hist.lookups]
         w0 == IF /\ ~o.throws /\ o.status = "stopped"
                  /\ sup.reconnectAttempts > 0 /\ ~hist.stopped.seen
               THEN [W EXCEPT !.hist.lookup = settled,
                              !.hist.stopped =
                       [seen |-> TRUE, cmd |-> sup.cmd, calls |-> hist.calls,
                        lookups |-> hist.lookups]]
               ELSE [W EXCEPT !.hist.lookup = settled]
     IN Commit(settle(IF sup.pc = "lookup" THEN connectAfterLookup(w0, o)
                      ELSE IF sup.pc = "refresh" THEN newAfterRefresh(w0, o)
                      ELSE newAfterCreate(w0, o)))

\* sleep(RECONNECT_DELAY_MS) ends
Wake ==
  /\ Running
  /\ sup.pc \in {"sleep", "sleepCatch"}
  /\ Commit(settle(afterSleep([W EXCEPT !.now = Max(now, sup.wakeAt)])))

WsOpen ==
  /\ Running
  /\ conn.id > 0
  /\ ws.readyState = "CONNECTING"
  /\ Commit(onOpen([W EXCEPT !.ws.readyState = "OPEN", !.ws.inbound = TRUE]))

\* hist.applied gains the entry of a file change the writer has just handled
noteApplied(version, msg, before, after) ==
  [after EXCEPT !.hist.applied =
     Append(@, [version |-> version, path |-> msg.path, hasPath |-> msg.hasPath,
                action |-> msg.action,
                mutations |-> SubSeq(after.hist.mutations,
                                     Len(before.hist.mutations) + 1,
                                     Len(after.hist.mutations)),
                fsBefore |-> before.fs, fsAfter |-> after.fs,
                threw |-> after.hist.thrown # before.hist.thrown,
                sessionKept |->
                  /\ after.ws = before.ws /\ after.proc = before.proc
                  /\ after.sup = before.sup /\ after.tasks = before.tasks
                  /\ [after.conn EXCEPT !.lastDataReceived = 0]
                       = [before.conn EXCEPT !.lastDataReceived = 0]])]

WsMessage(frame, max) ==
  /\ Running
  /\ ws.inbound
  /\ ws.readyState \in {"OPEN", "CLOSING"}
  /\ hist.nInputs < max
  /\ LET w0 == [W EXCEPT !.hist.nInputs = @ + 1, !.hist.lastFrameAt = now]
         handled(w1, msg) ==
           IF ~frame.bin /\ msg.type = "file_change"
           THEN noteApplied(2, msg, w0, w1)
           ELSE IF ~frame.bin /\ msg.type = "sync_back_ack" /\ hist.ack.ackAt = -1
             THEN [w1 EXCEPT !.hist.ack.ackAt = now]
           ELSE w1
     IN Turn(handled(onMessage(w0, frame), asMessage(parseMessage(frame.text).msg)))

\* two frames that arrived in one read of the socket: the transport emits both
\* message events in the same turn of the event loop, before the command's
\* await can continue
WsMessageBatch(first, second, max) ==
  /\ Running
  /\ ws.inbound
  /\ ws.readyState \in {"OPEN", "CLOSING"}
  /\ hist.nInputs + 1 < max
  /\ LET w0 == [W EXCEPT !.hist.nInputs = @ + 2, !.hist.lastFrameAt = now]
         emitted(w1) == w1.ws.inbound /\ w1.ws.readyState \in {"OPEN", "CLOSING"}
         \* hist.late: what the second frame did, if the first had set the flag
         noteLate(w1, w2) ==
           IF emitted(w1) /\ w1.conn.connectionClosed
           THEN [w2 EXCEPT !.hist.late =
                   [seen |-> TRUE, type |-> asMessage(parseMessage(second.text).msg).type,
                    readyState |-> w1.ws.readyState,
                    stderr |-> SubSeq(w2.hist.stderr, Len(w1.hist.stderr) + 1,
                                      Len(w2.hist.stderr)),
                    sent |-> Len(w2.ws.sent) - Len(w1.ws.sent),
                    fsChanged |-> w2.fs # w1.fs,
                    produced |-> SubSeq(w2.hist.produced, Len(w1.hist.produced) + 1,
                                        Len(w2.hist.produced)),
                    delivered |-> SubSeq(w2.hist.delivered, Len(w1.hist.delivered) + 1,
                                         Len(w2.hist.delivered))]]
           ELSE w2
     IN \E w1 \in {onMessage(w0, first)} :
          \E w2 \in {IF emitted(w1) THEN onMessage(w1, second) ELSE w1} :
            Turn(noteLate(w1, w2))

\* the peer's close frame arrives, or the socket is lost: the close event follows
WsClosing(c) ==
  /\ Running
  /\ ws.readyState = "OPEN" \/ (ws.readyState = "CLOSING" /\ ws.inbound)
  /\ Commit([W EXCEPT !.ws.readyState = "CLOSING", !.ws.inbound = FALSE,
                      !.ws.closeCode = c.code, !.ws.closeReason = c.reason])

WsError ==
  /\ Running
  /\ ws.readyState \in {"CONNECTING", "OPEN"}
  /\ ~ws.errored
  /\ Turn(onError([W EXCEPT !.ws.errored = TRUE, !.ws.readyState = "CLOSING",
                            !.ws.inbound = FALSE],
                  "socket error"))

WsClose ==
  /\ Running
  /\ ws.readyState = "CLOSING"
  /\ LET w0 == [W EXCEPT !.ws.readyState = "CLOSED", !.ws.inbound = FALSE]
         noteClose(w1) ==
           [w1 EXCEPT !.hist.closes =
              Append(@, [attempt |-> conn.id, code |-> ws.closeCode,
                         reason |-> ws.closeReason,
                         handled |-> ~conn.connectionClosed,
                         interrupted |-> conn.userInterrupted,
                         produced |-> SubSeq(w1.hist.produced,
                                             Len(hist.produced) + 1,
                                             Len(w1.hist.produced)),
                         calls |-> hist.calls, lookups |-> hist.lookups])]
     IN Turn(noteClose(onClose(w0, ws.closeCode, ws.closeReason)))

\* hist.timer becomes the record of the timer callback that has just run
noteTimer(kind, due, before, after) ==
  [after EXCEPT !.hist.timer =
     [kind |-> kind, at |-> before.now, due |-> due,
      opened |-> before.conn.connectionOpened, closed |-> before.conn.connectionClosed,
      sinceFrame |-> before.now - before.hist.lastFrameAt,
      produced |-> SubSeq(after.hist.produced, Len(before.hist.produced) + 1,
                          Len(after.hist.produced)),
      delivered |-> SubSeq(after.hist.delivered, Len(before.hist.delivered) + 1,
                           Len(after.hist.delivered)),
      terminated |-> after.ws.terminated /\ ~before.ws.terminated,
      readyState |-> after.ws.readyState]]

HandshakeTimer ==
  /\ Running
  /\ conn.connectionTimeout # -1
  /\ now >= conn.connectionTimeout
  /\ LET w0 == [W EXCEPT !.conn.connectionTimeout = -1]
     IN \E w1 \in {connectionTimeoutFired(w0)} :
          Turn(noteTimer("handshake", conn.connectionTimeout, w0, w1))

HealthTimer ==
  /\ Running
  /\ conn.healthCheckInterval # -1
  /\ now >= conn.healthCheckInterval
  /\ LET w0 == [W EXCEPT !.conn.healthCheckInterval = now + HEALTH_CHECK_INTERVAL_MS]
     IN \E w1 \in {healthCheck(w0)} :
          Turn(noteTimer("health", conn.healthCheckInterval, w0, w1))

\* hist.chunks gains the entry of a chunk the stdin listener has just handled
noteChunk(n, data, before, after) ==
  [after EXCEPT !.hist.chunks =
     Append(@, [n |-> n, attempt |-> before.conn.id, data |-> data, at |-> before.now,
                open |-> before.ws.readyState = "OPEN",
                inPaste |-> before.conn.inPaste,
                produced |-> SubSeq(after.hist.produced, Len(before.hist.produced) + 1,
                                    Len(after.hist.produced)),
                sent |-> SubSeq(after.ws.sent, Len(before.ws.sent) + 1,
                                Len(after.ws.sent)),
                pastes |-> SubSeq(after.hist.pastes, Len(before.hist.pastes) + 1,
                                  Len(after.hist.pastes))])]

Stdin(data, max) ==
  /\ Running
  /\ conn.stdinOn
  /\ hist.nInputs < max
  /\ LET n == hist.nStdin + 1
         w0 == [W EXCEPT !.hist.nStdin = n, !.hist.nInputs = @ + 1]
     IN Turn(drainMicro(noteChunk(n, data, w0, handleStdinData(w0, data, n))))

\* the 1 ms timer of the oldest suspended upload fires
ChunkTimer ==
  /\ Running
  /\ tasks # <<>>
  /\ LET t == Head(tasks)
         w0 == [W EXCEPT !.tasks = Tail(@)]
     IN Commit(IF t.attempt = conn.id THEN uploadFileResume(w0, t) ELSE w0)

Resize(max) ==
  /\ Running
  /\ conn.resizeOn
  /\ hist.nInputs < max
  /\ Commit(handleResize([W EXCEPT !.hist.nInputs = @ + 1,
                                   !.proc.cols = IF @ = 80 THEN 120 ELSE 80]))

Signal(sig, max) ==
  /\ ~proc.exited
  /\ proc.stopped => sig = "SIGCONT"
  /\ hist.nInputs < max
  /\ LET w0 == [W EXCEPT !.hist.nInputs = @ + 1]
         \* hist.suspend: what a SIGTSTP found, and what the SIGCONT after it left
         noteSuspend(w1) ==
           CASE sig = "SIGTSTP" ->
                  [w1 EXCEPT !.hist.suspend =
                     [NoSuspend EXCEPT !.tstp = TRUE, !.tstpRaw = proc.rawMode]]
             [] sig = "SIGCONT" ->
                  [w1 EXCEPT !.hist.suspend.cont = TRUE,
                             !.hist.suspend.attached =
                               w1.ws.readyState = "OPEN" /\ ~w1.conn.resolved
                               /\ w1.conn.stdinOn,
                             !.hist.suspend.raw = w1.proc.rawMode,
                             !.hist.suspend.message =
                               \E k \in (Len(hist.stderr) + 1)..Len(w1.hist.stderr) :
                                 w1.hist.stderr[k].line = SESSION_SUSPENDED]
             [] OTHER -> w1
         \* hist.signal: what the signal found and what its listeners did
         noteSignal(w1) ==
           [w1 EXCEPT !.hist.signal =
              [sig |-> sig, attempt |-> conn.id,
               pending |-> conn.id > 0 /\ ~conn.resolved
                             /\ ws.readyState \in {"CONNECTING", "OPEN"},
               open |-> ws.readyState = "OPEN", wasRaw |-> proc.rawMode,
               delivered |-> SubSeq(w1.hist.delivered, Len(hist.delivered) + 1,
                                    Len(w1.hist.delivered)),
               closeCalls |-> SubSeq(w1.hist.closeCalls, Len(hist.closeCalls) + 1,
                                     Len(w1.hist.closeCalls)),
               raw |-> w1.proc.rawMode, exited |-> w1.proc.exited]]
     IN Turn(noteSignal(noteSuspend(CASE sig = "SIGINT" -> onSIGINT(w0)
                           [] sig = "SIGQUIT" -> onSIGQUIT(w0)
                           [] sig = "SIGTERM" -> onSIGTERM(w0)
                           [] sig = "SIGHUP" -> onSIGHUP(w0)
                           [] sig = "SIGTSTP" -> onSIGTSTP(w0)
                           [] OTHER -> onSIGCONT(w0))))

Fault(max) ==
  /\ Running
  /\ hist.nInputs < max
  /\ Commit(onFault([W EXCEPT !.hist.nInputs = @ + 1]))

Tick(dt, max) ==
  /\ Running
  /\ hist.nInputs < max
  /\ Commit([W EXCEPT !.now = @ + dt, !.hist.nInputs = @ + 1])

\* workspace.ts's own applyRemoteFileChange (lines 149-201) receives a change
ApplyChangeEarlier(msg, max) ==
  /\ Running
  /\ hist.nInputs < max
  /\ LET w0 == [W EXCEPT !.hist.nInputs = @ + 1]
     IN Commit(noteApplied(1, msg, w0, applyRemoteFileChangeV1(w0, msg)))

\* the process is killed (SIGKILL, power loss) while a file change is being
\* applied by either definition of applyRemoteFileChange
CrashInWrite(msg, version, cut, max) ==
  /\ Running
  /\ version = 2 => ws.inbound /\ ws.readyState \in {"OPEN", "CLOSING"}
  /\ hist.nInputs < max
  /\ LET w0 == [W EXCEPT !.hist.nInputs = @ + 1]
         noteCrash(atCut, atEnd) ==
           [atCut EXCEPT !.hist.crashed =
              Append(@, [version |-> version, path |-> msg.path, cut |-> cut,
                         content |-> Base64Decode(msg.content),
                         fsBefore |-> fs, fsAfter |-> atCut.fs, fsDone |-> atEnd.fs])]
     IN Commit(killedBySignal(
          IF version = 2
          THEN noteCrash(applyRemoteFileChangeUntil(w0, msg, cut),
                         applyRemoteFileChange(w0, msg))
          ELSE noteCrash(applyRemoteFileChangeV1Until(w0, msg, cut),
                         applyRemoteFileChangeV1(w0, msg)),
          137))

-----------------------------------------------------------------------------
(* Specifications *)

\* one attempt of `connect` without auto-reconnect, under every kind of input
Init == InitWith({"connect"}, {TRUE}, {FALSE}, BOOLEAN)

Next ==
  \/ LookupReturns(OkSession)
  \/ WsOpen
  \/ \E frame \in RelayFrames : WsMessage(frame, MaxInputs)
  \/ \E c \in CloseEvents : WsClosing(c)
  \/ WsError
  \/ WsClose
  \/ HandshakeTimer
  \/ HealthTimer
  \/ \E data \in KeyChunks : Stdin(data, MaxInputs)
  \/ Resize(MaxInputs)
  \/ \E sig \in Signals : Signal(sig, MaxInputs)
  \/ Fault(MaxInputs)
  \/ \E dt \in TickSteps : Tick(dt, MaxInputs)

Spec == Init /\ [][Next]_vars

\* `connect` with auto-reconnect: the events that end an attempt, racing
InitRace == InitWith({"connect"}, {TRUE}, {TRUE}, {FALSE})

NextRace ==
  \/ LookupReturns(OkSession)
  \/ Wake
  \/ WsOpen
  \/ WsMessage(TextInbound(ExitMessage(2)), MaxInputs)
  \/ \E c \in {c \in CloseEvents : c.reason = ""} : WsClosing(c)
  \/ WsError
  \/ WsClose
  \/ HandshakeTimer
  \/ HealthTimer
  \/ Stdin(<<CTRL_C>>, MaxInputs)
  \/ \E sig \in {"SIGINT", "SIGQUIT"} : Signal(sig, MaxInputs)
  \/ Tick(CLIENT_TIMEOUT_MS + 1, MaxInputs)

SpecRace == InitRace /\ [][NextRace]_vars

\* both commands through their reconnect loops, under every lookup outcome
InitLoop == InitWith({"connect", "new"}, BOOLEAN, BOOLEAN, BOOLEAN)

NextLoop ==
  \/ \E o \in LookupOutcomes : LookupReturns(o)
  \/ Wake
  \/ WsOpen
  \/ WsMessage(TextInbound(ExitMessage(2)), MaxLoopInputs)
  \/ \E c \in CloseEvents : WsClosing(c)
  \/ WsError
  \/ WsClose
  \/ \E sig \in {"SIGINT", "SIGQUIT"} : Signal(sig, MaxLoopInputs)

SpecLoop == InitLoop /\ [][NextLoop]_vars

\* one attached session whose terminal sends keys and pastes split over chunks
InitAttached == InitWith({"connect"}, {TRUE}, {FALSE}, {FALSE})

NextPieces ==
  \/ LookupReturns(OkSession)
  \/ WsOpen
  \/ \E data \in PieceChunks : Stdin(data, MaxInputs)
  \/ \E dt \in {DOUBLE_CTRLC_MS \div 2, DOUBLE_CTRLC_MS} : Tick(dt, MaxInputs)

SpecPieces == InitAttached /\ [][NextPieces]_vars

\* one Terminal instance, constructed and not yet used, in a process whose
\* stdin may be an interactive terminal
InitTerminal ==
  /\ now = StartTime
  /\ conn = NoConn
  /\ ws = [NewWebSocket EXCEPT !.readyState = "CLOSED"]
  /\ terminals = <<NewTerminal>>
  /\ tasks = <<>>
  /\ fs = InitFs
  /\ \E isTTY \in BOOLEAN : proc = InitProc(isTTY)
  /\ sup = InitSup("connect", FALSE, FALSE)
  /\ hist = InitHist(0)

\* a caller calls terminal.makeRaw()
CallMakeRaw(id) ==
  /\ Running
  /\ hist.nInputs < MaxCalls
  /\ Commit(makeRaw([W EXCEPT !.hist.nInputs = @ + 1], id))

\* a caller calls terminal.restore()
CallRestore(id) ==
  /\ Running
  /\ hist.nInputs < MaxCalls
  /\ Commit(restore([W EXCEPT !.hist.nInputs = @ + 1], id))

NextTerminal ==
  \/ CallMakeRaw(1)
  \/ CallRestore(1)

SpecTerminal == InitTerminal /\ [][NextTerminal]_vars

\* input chunks whose boundary falls inside a paste marker: the end marker of
\* a paste cut after four bytes, and the start marker cut after three
SplitChunks ==
  KeyChunks
  \cup {PASTE_START \o <<"h">> \o SubSeq(PASTE_END, 1, 4),
        SubSeq(PASTE_END, 5, 6) \o <<"b">>,
        <<"a">> \o SubSeq(PASTE_START, 1, 3),
        SubSeq(PASTE_START, 4, 6) \o <<"h">> \o PASTE_END,
        PASTE_START \o <<"h">> \o PASTE_END}

\* one attached session whose terminal cuts its output inside paste markers
NextSplit ==
  \/ LookupReturns(OkSession)
  \/ WsOpen
  \/ \E data \in SplitChunks : Stdin(data, MaxInputs)
  \/ Tick(DOUBLE_CTRLC_MS, MaxInputs)

SpecSplit == InitAttached /\ [][NextSplit]_vars

\* one attached session whose terminal sends whole pastes, some naming files
NextPaste ==
  \/ LookupReturns(OkSession)
  \/ WsOpen
  \/ \E data \in PasteChunks : Stdin(data, MaxInputs)
  \/ ChunkTimer
  \/ Tick(DOUBLE_CTRLC_MS, MaxInputs)

SpecPaste == InitAttached /\ [][NextPaste]_vars

\* the sync-back writer under file changes from the remote side
NextSync ==
  \/ LookupReturns(OkSession)
  \/ WsOpen
  \/ \E msg \in FileChanges : WsMessage(TextInbound(msg), MaxChanges)
  \/ \E msg \in FileChanges : ApplyChangeEarlier(msg, MaxChanges)
  \/ \E msg \in {m \in FileChanges : m.action = "write"}, version \in {1, 2},
        cut \in Cuts :
       CrashInWrite(msg, version, cut, MaxChanges)

SpecSync == InitAttached /\ [][NextSync]_vars

\* one attached session that receives the text of every kind of control message
NextCodec ==
  \/ LookupReturns(OkSession)
  \/ WsOpen
  \/ \E m \in WellFormedMessages : WsMessage(TextFrame(JSONstringify(m)), MaxChanges)
  \/ \E text \in EncodedByRelay : WsMessage(TextFrame(text), MaxChanges)

SpecCodec == InitAttached /\ [][NextCodec]_vars

\* one attempt under its two timers: the clock advances by the timers' periods
TimerSteps ==
  {HEALTH_CHECK_INTERVAL_MS, HANDSHAKE_TIMEOUT_MS, CLIENT_TIMEOUT_MS,
   CLIENT_TIMEOUT_MS + 1}

TimerFrames == {BinaryInbound, MalformedInbound, TextInbound(Msg("ping"))}

NextTimers ==
  \/ LookupReturns(OkSession)
  \/ WsOpen
  \/ \E frame \in TimerFrames : WsMessage(frame, MaxInputs)
  \/ \E c \in CloseEvents : WsClosing(c)
  \/ WsError
  \/ WsClose
  \/ HandshakeTimer
  \/ HealthTimer
  \/ \E dt \in TimerSteps : Tick(dt, MaxInputs)

SpecTimers == InitAttached /\ [][NextTimers]_vars

\* one attached session whose transport may hand over two frames in one turn
BatchFrames ==
  {TextInbound(Msg("ping")), TextInbound(ExitMessage(2)),
   TextInbound([Msg("error") EXCEPT !.message = "boom"]),
   TextInbound(FileChangeMessage(<<"g">>, "write", "QQ==", 0))}

NextBatch ==
  \/ LookupReturns(OkSession)
  \/ WsOpen
  \/ \E frame \in BatchFrames : WsMessage(frame, MaxInputs)
  \/ \E first, second \in BatchFrames : WsMessageBatch(first, second, MaxInputs)
  \/ \E c \in CloseEvents : WsClosing(c)
  \/ WsClose

SpecBatch == InitAttached /\ [][NextBatch]_vars

\* one attached session that is sent error messages and messages of types the
\* relay does not handle, while keys and pieces of pastes arrive and time passes
NoticeFrames ==
  {TextInbound([Msg("error") EXCEPT !.message = "boom"]),
   TextFrame(JSONstringify(TypeOnly("error"))),
   TextInbound(Msg("future")),
   TextInbound(Msg("ready")),
   TextFrame(JSONstringify(<<Prop("type", Num(7))>>)),
   TextFrame(JSONstringify(<<Prop("kind", Str(<<"x">>))>>))}

NextNotice ==
  \/ LookupReturns(OkSession)
  \/ WsOpen
  \/ \E frame \in NoticeFrames : WsMessage(frame, MaxInputs)
  \/ \E data \in {<<"a">>, PASTE_START \o <<"C3">>, PASTE_END} : Stdin(data, MaxInputs)
  \/ \E c \in CloseEvents : WsClosing(c)
  \/ HealthTimer
  \/ Tick(HEALTH_CHECK_INTERVAL_MS, MaxInputs)

SpecNotice == InitAttached /\ [][NextNotice]_vars

\* one attached session whose user pastes the path of a text file above the
\* chunking threshold, alone or twice in one paste, while keys arrive and the
\* transport may close; the file's size is one of UploadSizes
UploadSizes ==
  {CHUNK_SIZE + 1, CHUNK_SIZE + 1000, 3 * CHUNK_SIZE, 5 * CHUNK_SIZE + 255}

UploadChunks ==
  {<<"a">>,
   PASTE_START \o ChunkedText \o PASTE_END,
   PASTE_START \o ChunkedText \o <<" ">> \o ChunkedText \o PASTE_END \o <<"b">>}

InitUpload ==
  /\ now = StartTime
  /\ conn = NoConn
  /\ ws = [NewWebSocket EXCEPT !.readyState = "CLOSED"]
  /\ terminals = <<>>
  /\ tasks = <<>>
  /\ \E size \in UploadSizes : fs = [InitFs EXCEPT ![ChunkedText].size = size]
  /\ proc = InitProc(TRUE)
  /\ sup = InitSup("connect", FALSE, FALSE)
  /\ hist = InitHist(1)

NextUpload ==
  \/ LookupReturns(OkSession)
  \/ WsOpen
  \/ \E data \in UploadChunks : Stdin(data, MaxPastes)
  \/ ChunkTimer
  \/ \E c \in CloseEvents : WsClosing(c)
  \/ WsClose

SpecUpload == InitUpload /\ [][NextUpload]_vars

\* a session that may have asked for sync-back; the remote side acknowledges it
\* early, late or never, while output arrives and time passes
AckFrames ==
  {BinaryInbound,
   TextFrame(JSONstringify(<<Prop("type", Str(<<"sync_back_ack">>)),
                             Prop("enabled", Bool(TRUE))>>))}

NextAck ==
  \/ LookupReturns(OkSession)
  \/ WsOpen
  \/ \E frame \in AckFrames : WsMessage(frame, MaxInputs)
  \/ \E dt \in {SYNC_BACK_ACK_TIMEOUT_MS \div 2, SYNC_BACK_ACK_TIMEOUT_MS} :
       Tick(dt, MaxInputs)
  \/ \E c \in CloseEvents : WsClosing(c)
  \/ WsClose
  \/ HealthTimer

SpecAck == Init /\ [][NextAck]_vars

\* the clock moves on by one health-check period while the attempt has a timer
\* pending and none of its timers is due
TimePasses ==
  /\ Running
  /\ conn.id > 0
  /\ {conn.connectionTimeout, conn.healthCheckInterval} # {-1}
  /\ \A due \in {conn.connectionTimeout, conn.healthCheckInterval} \ {-1} : now < due
  /\ Commit([W EXCEPT !.now = @ + HEALTH_CHECK_INTERVAL_MS])

\* one attempt whose timers run when they are due; the transport may open, carry
\* frames, fail or close, or do none of these
NextLive ==
  \/ LookupReturns(OkSession)
  \/ WsOpen
  \/ \E frame \in {BinaryInbound, TextInbound(Msg("ping"))} : WsMessage(frame, MaxLoopInputs)
  \/ \E c \in CloseEvents : WsClosing(c)
  \/ WsError
  \/ WsClose
  \/ HandshakeTimer
  \/ HealthTimer
  \/ TimePasses

SpecLive ==
  /\ InitAttached /\ [][NextLive]_vars
  /\ WF_vars(HandshakeTimer) /\ WF_vars(HealthTimer) /\ WF_vars(TimePasses)

-----------------------------------------------------------------------------
(* Properties *)

\* C1: for one call of connectToSession the outcome is delivered at most once,
\* the delivered outcome is the one the first handled terminating event produced,
\* and every later one is discarded without changing what the command receives.
OutcomeDeliveredOnce ==
  /\ Len(hist.delivered) <= 1
  /\ hist.produced # <<>> =>
       /\ Len(hist.delivered) = 1
       /\ hist.delivered[1].result = hist.produced[1].result
       /\ conn.promise = hist.produced[1].result
  /\ hist.produced = <<>> => hist.delivered = <<>> /\ conn.promise = NoResult
  /\ \A i \in 1..Len(hist.produced) : hist.produced[i].attempt = conn.id

\* a later terminating event has produced a second outcome, which was discarded
LaterOutcomeDiscarded ==
  /\ Len(hist.produced) >= 2
  /\ Len(hist.delivered) = 1
  /\ hist.produced[2].result # hist.produced[1].result

\* C2: raw mode is off whenever a connection outcome is delivered, and whenever
\* the process exits with the Terminal's process-wide handlers in place (through
\* their exit listener or one of their signal and fault handlers).
RawModeOffAtOutcomeAndExit ==
  /\ \A i \in 1..Len(hist.delivered) : ~hist.delivered[i].raw
  /\ \A i \in 1..Len(hist.exits) :
       hist.exits[i].by \in {"terminal", "command", "node"} => ~hist.exits[i].raw
  /\ proc.exited /\ proc.globalHandlersRegistered => ~proc.rawMode

\* an outcome was delivered by an attempt that had put the terminal in raw mode,
\* and the process has then exited
OutcomeAfterRawMode ==
  /\ Len(hist.delivered) = 1
  /\ hist.restoreWrites > 0
  /\ terminals[conn.id].cleanupDone
  /\ Len(hist.exits) = 1

\* C3: once an attempt has ended with outcome exit, interrupted or replaced, the
\* command has exited without a further call of connectToSession or a further
\* session lookup, whatever the reconnect count and the auto-reconnect option.
FinalOutcomeNeverRetried ==
  \A i \in 1..Len(hist.delivered) :
    hist.delivered[i].result.type \in {"exit", "interrupted", "replaced"} =>
      /\ proc.exited
      /\ sup.pc = "attached"
      /\ hist.calls = hist.delivered[i].calls
      /\ hist.lookups = hist.delivered[i].lookups

\* a final outcome was delivered on a reconnected attempt, with auto-reconnect on
FinalOutcomeAfterReconnect ==
  /\ Len(hist.delivered) = 1
  /\ hist.delivered[1].result.type \in {"exit", "interrupted", "replaced"}
  /\ sup.autoReconnect
  /\ sup.reconnectAttempts >= 2
  /\ proc.exited

\* C4: with auto-reconnect the supervisor reconnects at most MAX_RECONNECT_ATTEMPTS
\* times: connectToSession is called at most that often after the first call, and
\* when the count of disconnections and failed reconnects exceeds the ceiling the
\* command has exited with status 1, with no further call.
ReconnectCeiling ==
  /\ sup.reconnectAttempts <= MAX_RECONNECT_ATTEMPTS + 1
  /\ hist.calls <= MAX_RECONNECT_ATTEMPTS + 1
  /\ hist.calls >= 1 => hist.calls - 1 <= sup.reconnectAttempts
  /\ sup.reconnectAttempts > MAX_RECONNECT_ATTEMPTS =>
       proc.exited /\ proc.exitCode = 1
  /\ ~sup.autoReconnect => sup.reconnectAttempts = 0 /\ hist.calls <= 1

\* the ceiling was hit after five reconnect attempts, and the command failed
CeilingReached ==
  /\ sup.autoReconnect
  /\ sup.reconnectAttempts = MAX_RECONNECT_ATTEMPTS + 1
  /\ hist.calls = MAX_RECONNECT_ATTEMPTS + 1
  /\ proc.exited
  /\ proc.exitCode = 1

\* C5: a close event that ends an attempt reports `replaced` when it carries the
\* reserved code 1008, and the command then exits with status 0 without another
\* lookup or attempt; with any other code it reports `disconnected` with the close
\* reason, or with the code when the reason is empty.
CloseCodeDecidesOutcome ==
  \A i \in 1..Len(hist.closes) :
    LET c == hist.closes[i]
    IN c.handled =>
         /\ Len(c.produced) = 1
         /\ Len(hist.delivered) = 1
         /\ hist.delivered[1].result = c.produced[1].result
         /\ IF c.code = WS_POLICY_VIOLATION
            THEN /\ c.produced[1].result.type = "replaced"
                 /\ proc.exited
                 /\ proc.exitCode = 0
                 /\ hist.calls = c.calls
                 /\ hist.lookups = c.lookups
            ELSE /\ c.produced[1].result.type = "disconnected"
                 /\ c.produced[1].result.reason =
                      (IF c.reason = "" THEN "code " \o ToString(c.code) ELSE c.reason)

\* a reconnected attempt was ended by a close with the reserved code
ReplacedAfterReconnect ==
  /\ Len(hist.closes) = 1
  /\ hist.closes[1].handled
  /\ hist.closes[1].code = WS_POLICY_VIOLATION
  /\ sup.autoReconnect
  /\ sup.reconnectAttempts >= 1

\* the chunks of hist.chunks that arrived on an open transport carrying 0x03
hasInterrupt(data) == \E k \in 1..Len(data) : data[k] = CTRL_C

interruptChunks == {k \in 1..Len(hist.chunks) :
                      hist.chunks[k].open /\ hasInterrupt(hist.chunks[k].data)}

\* i and j are two such chunks with none between them
successiveInterrupts(i, j) ==
  /\ i \in interruptChunks
  /\ j \in interruptChunks
  /\ i < j
  /\ \A k \in interruptChunks : ~(i < k /\ k < j)

endsSession(e) ==
  /\ Len(e.produced) = 1
  /\ e.produced[1].result = InterruptedResult

forwardsInterrupt(e) ==
  \E k \in 1..Len(e.sent) : e.sent[k].bin /\ hasInterrupt(e.sent[k].data)

forwardedUnchanged(e) == e.sent = <<BinaryFrame(e.data, [n |-> e.n, ph |-> 0])>>

outsidePaste(e) == ~e.inPaste /\ IndexOf(e.data, PASTE_START) = -1

\* C6 as stated: of two successive chunks carrying 0x03 on an open transport, the
\* second ends the session as interrupted when it comes less than 1000 ms after
\* the first; otherwise it ends nothing and both chunks were forwarded.
DoubleInterruptWindowAllForwarded ==
  \A i, j \in 1..Len(hist.chunks) :
    successiveInterrupts(i, j) =>
      IF hist.chunks[j].at - hist.chunks[i].at < DOUBLE_CTRLC_MS
      THEN endsSession(hist.chunks[j])
      ELSE /\ hist.chunks[j].produced = <<>>
           /\ forwardsInterrupt(hist.chunks[i])
           /\ forwardsInterrupt(hist.chunks[j])

\* C6: of two successive chunks carrying 0x03 on an open transport, the second
\* ends the session as interrupted when it comes less than 1000 ms after the
\* first; otherwise it ends nothing, and each of the two that arrived outside a
\* paste (no paste being accumulated, no start marker in it) was forwarded
\* unchanged.
DoubleInterruptWindow ==
  \A i, j \in 1..Len(hist.chunks) :
    successiveInterrupts(i, j) =>
      IF hist.chunks[j].at - hist.chunks[i].at < DOUBLE_CTRLC_MS
      THEN /\ endsSession(hist.chunks[j])
           /\ hist.delivered # <<>>
           /\ hist.delivered[1].result = InterruptedResult
      ELSE /\ hist.chunks[j].produced = <<>>
           /\ \A k \in {i, j} :
                outsidePaste(hist.chunks[k]) => forwardedUnchanged(hist.chunks[k])

\* two interrupt chunks a full window apart were both forwarded and the session
\* goes on
SlowInterruptsForwarded ==
  \E i, j \in 1..Len(hist.chunks) :
    /\ successiveInterrupts(i, j)
    /\ hist.chunks[j].at - hist.chunks[i].at = DOUBLE_CTRLC_MS
    /\ forwardedUnchanged(hist.chunks[i])
    /\ forwardedUnchanged(hist.chunks[j])
    /\ hist.delivered = <<>>
    /\ ws.readyState = "OPEN"

\* the chunk in which the paste that ends in chunk N began
pasteStartChunk(N) ==
  CHOOSE s \in 1..(N - 1) :
    /\ ~hist.chunks[s].inPaste
    /\ \A k \in (s + 1)..N : hist.chunks[k].inPaste

RECURSIVE chunkBytes(_, _)
chunkBytes(a, b) ==
  IF a > b THEN <<>> ELSE hist.chunks[a].data \o chunkBytes(a + 1, b)

bytesBefore(data, marker) == Slice(data, 0, IndexOf(data, marker))
bytesAfter(data, marker) == SliceFrom(data, IndexOf(data, marker) + Len(marker))

forwardedAs(bytes, n, ph) ==
  IF bytes = <<>> THEN <<>> ELSE <<BinaryFrame(bytes, [n |-> n, ph |-> ph])>>

\* the bytes are the encoding of some text
wellFormed(bytes) ==
  LET str == Utf8Decode(bytes) IN \A k \in 1..Len(str) : str[k] # "FFFD"

\* the bytes received between the markers of the paste that ends in chunk N
pasteBytes(N) ==
  LET s == pasteStartChunk(N)
  IN bytesAfter(hist.chunks[s].data, PASTE_START)
       \o chunkBytes(s + 1, N - 1)
       \o bytesBefore(hist.chunks[N].data, PASTE_END)

\* chunk N ends a paste of text that began at least two chunks earlier
endsLongPaste(N) ==
  /\ hist.chunks[N].inPaste
  /\ hist.chunks[N].open
  /\ Len(hist.chunks[N].pastes) = 1
  /\ IndexOf(hist.chunks[N].data, PASTE_END) # -1
  /\ N - pasteStartChunk(N) >= 2
  /\ wellFormed(pasteBytes(N))

\* C7: when a paste of text begins in one chunk and ends two or more chunks later,
\* the payload handed to the paste handler encodes to exactly the bytes received
\* between the two markers, the bytes before the start marker and after the end
\* marker are forwarded as received, and the chunks in between forward nothing.
SplitPasteReassembled ==
  \A N \in 1..Len(hist.chunks) :
    endsLongPaste(N) =>
      LET s == pasteStartChunk(N)
          first == hist.chunks[s]
          last == hist.chunks[N]
      IN /\ Utf8Encode(last.pastes[1].content) = pasteBytes(N)
         /\ first.sent = forwardedAs(bytesBefore(first.data, PASTE_START), first.n, 0)
         /\ \A k \in (s + 1)..(N - 1) : hist.chunks[k].sent = <<>>
         /\ SelectSeq(last.sent, LAMBDA f : f.origin.ph # 1) =
              forwardedAs(bytesAfter(last.data, PASTE_END), last.n, 2)

\* the frames sent on behalf of local input, in the order sent
inputFrames == SelectSeq(ws.sent, LAMBDA f : f.origin # NoOrigin)

\* origin a is not later in the input than origin b
notLater(a, b) == a.n < b.n \/ (a.n = b.n /\ a.ph <= b.ph)

sentInInputOrder ==
  \A i, j \in 1..Len(inputFrames) :
    i < j => notLater(inputFrames[i].origin, inputFrames[j].origin)

\* the number of complete bracketed pastes in a chunk
RECURSIVE bracketedPastes(_)
bracketedPastes(data) ==
  IF IndexOf(data, PASTE_START) = -1 THEN 0
  ELSE LET afterStart == bytesAfter(data, PASTE_START)
       IN IF IndexOf(afterStart, PASTE_END) = -1 THEN 0
          ELSE 1 + bracketedPastes(bytesAfter(afterStart, PASTE_END))

pastesHandedOnce ==
  \A k \in 1..Len(hist.chunks) :
    hist.chunks[k].open /\ Len(hist.chunks[k].produced) = 0 =>
      Len(hist.chunks[k].pastes) = bracketedPastes(hist.chunks[k].data)

\* C8: what is sent for local input is sent in the order of the input (for each
\* chunk the bytes before a paste, then what the paste produces, then the bytes
\* after it, then later chunks), and each bracketed paste in the input is handed to
\* the paste handler exactly once.
InputOrderPreserved == sentInInputOrder /\ pastesHandedOnce

\* the paste names an existing file that is above the size ceiling or whose
\* extension is not supported
referencesIneligibleFile(content) ==
  LET filePaths == detectFilePaths(W, content)
  IN \E k \in 1..Len(filePaths) :
       /\ isFileAt(W.fs, filePaths[k])
       /\ ~shouldAutoUpload(W, filePaths[k]).shouldUpload

\* what has been sent on behalf of the paste of chunk n
sentForPaste(n) == SelectSeq(ws.sent, LAMBDA f : f.origin = PasteOrigin(n))

\* C9: a paste that references a file above the size ceiling or with an
\* unsupported extension is forwarded as the text that was pasted, and no
\* file_upload or file_upload_chunk message is sent for it.
IneligiblePasteForwardedVerbatim ==
  \A k \in 1..Len(hist.pastes) :
    LET p == hist.pastes[k]
    IN referencesIneligibleFile(p.content) =>
         sentForPaste(p.n) = <<BinaryFrame(Utf8Encode(p.content), PasteOrigin(p.n))>>

\* the path has a `..` segment or starts with `/`
unsafePath(path) ==
  \/ StartsWith(path, SEP)
  \/ \E k \in 1..Len(SplitSlash(path)) : SplitSlash(path)[k] = DOTDOT

\* C10: a file_change whose path has a `..` segment or starts with `/` is applied
\* without any filesystem mutation: no file created, replaced or deleted and no
\* directory created.
UnsafePathNeverApplied ==
  \A k \in 1..Len(hist.applied) :
    unsafePath(hist.applied[k].path) =>
      /\ hist.applied[k].mutations = <<>>
      /\ hist.applied[k].fsAfter = hist.applied[k].fsBefore

\* the paths whose node an applied file change created, replaced or deleted
changedPaths(e) ==
  {p \in DOMAIN e.fsBefore \cup DOMAIN e.fsAfter :
     \/ p \notin DOMAIN e.fsBefore
     \/ p \notin DOMAIN e.fsAfter
     \/ e.fsBefore[p] # e.fsAfter[p]}

insideWorkingDirectory(p) == StartsWith(p, CWD \o SEP)

\* C11: whatever the path and action of a file_change, every file or directory
\* that applying it created, replaced or deleted lies inside the local working
\* directory; a sibling whose name extends the working directory's is outside.
ChangesStayInsideWorkingDirectory ==
  \A k \in 1..Len(hist.applied) :
    \A p \in changedPaths(hist.applied[k]) : insideWorkingDirectory(p)

\* C11, for the applyRemoteFileChange the relay calls (workspace.ts 212-255) alone
RelayChangesStayInsideWorkingDirectory ==
  \A k \in 1..Len(hist.applied) :
    hist.applied[k].version = 2 =>
      \A p \in changedPaths(hist.applied[k]) : insideWorkingDirectory(p)

\* the files an uninterrupted run of the change would have created or replaced
destinations(e) ==
  {p \in DOMAIN e.fsDone :
     /\ e.fsDone[p].kind = "file"
     /\ p \in DOMAIN e.fsBefore => e.fsBefore[p] # e.fsDone[p]}

\* C12: when the process dies inside a sync-back write before the rename (before
\* the write has returned, for the definition that has no rename), each file the
\* write was going to create or replace is absent or exactly as it was before.
InterruptedWriteLeavesDestination ==
  \A k \in 1..Len(hist.crashed) :
    \A p \in destinations(hist.crashed[k]) :
      \/ p \notin DOMAIN hist.crashed[k].fsAfter
      \/ /\ p \in DOMAIN hist.crashed[k].fsBefore
         /\ hist.crashed[k].fsAfter[p] = hist.crashed[k].fsBefore[p]

\* C12, for the applyRemoteFileChange the relay calls (workspace.ts 212-255) alone
\* and a change whose path is not the name of the writer's own temp file
RelayInterruptedWriteLeavesDestination ==
  \A k \in 1..Len(hist.crashed) :
    hist.crashed[k].version = 2 /\ hist.crashed[k].path # TmpName =>
      \A p \in destinations(hist.crashed[k]) :
        \/ p \notin DOMAIN hist.crashed[k].fsAfter
        \/ /\ p \in DOMAIN hist.crashed[k].fsBefore
           /\ hist.crashed[k].fsAfter[p] = hist.crashed[k].fsBefore[p]

\* C13: applying a file_change never throws to the caller, whatever the message
\* (path missing, write failing, delete of an absent file, mode change failing),
\* and leaves the connection, the transport, the terminal and the command's loop
\* as they were.
ApplyNeverThrows ==
  \A k \in 1..Len(hist.applied) :
    ~hist.applied[k].threw /\ hist.applied[k].sessionKept

\* C13, with the message that has no path left out
ApplyWithPathNeverThrows ==
  \A k \in 1..Len(hist.applied) :
    (hist.applied[k].version = 2 => hist.applied[k].hasPath) =>
      ~hist.applied[k].threw /\ hist.applied[k].sessionKept

\* C14: whenever the text the relay parses is the encoding of a well-formed
\* control message m of a known type, parseMessage returns without throwing a
\* message with the type and the fields of m; the texts of the relay's own
\* create*Message encoders are among them.
ParseInvertsEncode ==
  /\ \A k \in 1..Len(hist.parsed) :
       \A m \in WellFormedMessages :
         hist.parsed[k].text = JSONstringify(m) =>
           hist.parsed[k].ok /\ SameFields(hist.parsed[k].msg, m)
  /\ \A text \in EncodedByRelay : \E m \in WellFormedMessages : text = JSONstringify(m)

\* a file_change message with content and mode has been encoded, received and parsed
ParsedFileChangeWithMode ==
  \E k \in 1..Len(hist.parsed) :
    /\ hist.parsed[k].ok
    /\ Keys(hist.parsed[k].msg) = {"type", "action", "path", "content", "mode"}
    /\ Get(hist.parsed[k].msg, "mode") = Num(493)
    /\ \E m \in WellFormedMessages : hist.parsed[k].text = JSONstringify(m)

\* the text of a frame does not decode to an object
undecodable(text) == JSONparse(text).kind # "object"

\* C15: a step in which the relay receives a text frame that is not valid JSON,
\* or is JSON that is not an object, raises no exception, produces and delivers
\* no outcome, sends nothing, and leaves the transport, the terminal, the
\* process, the files and the supervisor as they were; of the connection state
\* only lastDataReceived changes, to the time of the frame.
UndecodableFrameDropped ==
  [][(/\ Len(hist.parsed') = Len(hist.parsed) + 1
      /\ undecodable(hist.parsed'[Len(hist.parsed')].text))
     => /\ hist.thrown' = hist.thrown
        /\ hist.produced' = hist.produced /\ hist.delivered' = hist.delivered
        /\ hist.stderr' = hist.stderr /\ hist.exits' = hist.exits
        /\ ws' = ws /\ ws.readyState \in {"OPEN", "CLOSING"}
        /\ terminals' = terminals /\ proc' = proc /\ sup' = sup
        /\ tasks' = tasks /\ fs' = fs /\ now' = now
        /\ conn' = [conn EXCEPT !.lastDataReceived = now]]_vars

\* an invalid text and a text that is JSON but no object have both been dropped
\* by an open session, the second after the clock has advanced
UndecodableFramesReceived ==
  /\ ws.readyState = "OPEN" /\ ~conn.resolved
  /\ Len(hist.parsed) = 2
  /\ ~hist.parsed[1].ok
  /\ hist.parsed[2].ok /\ JSONparse(hist.parsed[2].text).kind = "scalar"
  /\ conn.lastDataReceived > StartTime

TimeoutResult == DisconnectedResult("Connection timeout")

produces(entries, result) == \E k \in 1..Len(entries) : entries[k].result = result

\* C16: the connection timer runs no earlier than 30 s after the attempt
\* started; when it runs on an attempt whose transport has neither opened nor
\* failed, the attempt is delivered the outcome disconnected (Connection
\* timeout) and the transport is force-terminated; once the transport has
\* opened the timer is cancelled and the attempt never produces that outcome.
HandshakeTimeout ==
  /\ hist.timer.kind = "handshake" =>
       /\ hist.timer.at >= hist.timer.due
       /\ ~hist.timer.opened
       /\ ~hist.timer.closed =>
            /\ hist.timer.produced = <<[attempt |-> conn.id, result |-> TimeoutResult]>>
            /\ Len(hist.timer.delivered) = 1
            /\ hist.timer.delivered[1].result = TimeoutResult
            /\ hist.timer.terminated
            /\ hist.timer.readyState # "OPEN"
  /\ conn.id > 0 /\ conn.connectionOpened =>
       /\ conn.connectionTimeout = -1
       /\ ~produces(hist.produced, TimeoutResult)
  /\ conn.id > 0 /\ conn.connectionTimeout # -1 =>
       conn.connectionTimeout = hist.attemptAt + HANDSHAKE_TIMEOUT_MS

\* the connection timer has ended an attempt whose transport never opened
HandshakeTimedOut ==
  /\ hist.timer.kind = "handshake" /\ ~hist.timer.closed
  /\ hist.timer.terminated
  /\ produces(hist.delivered, TimeoutResult)

SilenceResult == DisconnectedResult("Connection timed out (no data received)")

\* C17: lastDataReceived is the time of the attempt's last inbound frame,
\* whatever the frame holds (the attempt's start while none has arrived); a
\* health check that runs on an attempt that is not closed more than 75 s after
\* that time force-terminates the transport and delivers the outcome
\* disconnected (no data received); one that runs 75 s after it or less
\* produces no outcome and leaves the transport alone.
SilenceTimeout ==
  /\ CLIENT_TIMEOUT_MS = 75000
  /\ conn.id > 0 => conn.lastDataReceived = hist.lastFrameAt
  /\ hist.timer.kind = "health" /\ ~hist.timer.closed
       /\ hist.timer.sinceFrame > CLIENT_TIMEOUT_MS =>
         /\ hist.timer.terminated
         /\ hist.timer.readyState # "OPEN"
         /\ hist.timer.produced = <<[attempt |-> conn.id, result |-> SilenceResult]>>
         /\ Len(hist.timer.delivered) = 1
         /\ hist.timer.delivered[1].result = SilenceResult
  /\ hist.timer.kind = "health" /\ hist.timer.sinceFrame <= CLIENT_TIMEOUT_MS =>
         /\ hist.timer.produced = <<>> /\ hist.timer.delivered = <<>>
         /\ ~hist.timer.terminated

\* a health check has ended an attempt that had received a frame after it
\* started and then nothing for more than 75 s
SilenceTimedOut ==
  /\ hist.timer.kind = "health" /\ ~hist.timer.closed
  /\ hist.timer.sinceFrame = CLIENT_TIMEOUT_MS + 1
  /\ hist.lastFrameAt > hist.attemptAt
  /\ hist.timer.terminated
  /\ produces(hist.delivered, SilenceResult)

\* a health check has run exactly 75 s after the last frame of an open attempt
SilenceAtTheLimit ==
  /\ hist.timer.kind = "health" /\ ~hist.timer.closed /\ hist.timer.opened
  /\ hist.timer.sinceFrame = CLIENT_TIMEOUT_MS
  /\ hist.lastFrameAt > hist.attemptAt

\* C18: once a session lookup made before a reconnect attempt has reported the
\* remote session stopped, the command connects no more and looks the session
\* up no more.
GivesUpWhenStopped ==
  hist.stopped.seen =>
    /\ hist.calls = hist.stopped.calls
    /\ hist.lookups = hist.stopped.lookups

\* the same, for the loop of `new` alone, which also exits with status 1 at once
NewGivesUpWhenStopped ==
  hist.stopped.seen /\ hist.stopped.cmd = "new" =>
    /\ hist.calls = hist.stopped.calls
    /\ hist.lookups = hist.stopped.lookups
    /\ proc.exited /\ proc.exitCode = 1

\* `new` has seen its session stopped when refreshing it before a reconnect
NewSawStopped == hist.stopped.seen /\ hist.stopped.cmd = "new"

\* the calls of restore on terminal id, in order
restoresOf(id) == SelectSeq(hist.restores, LAMBDA e : e.id = id)

\* the state with the record of restore's calls left out
sansRestores(w) == [w EXCEPT !.hist.restores = <<>>]

\* C19: on a terminal that makeRaw has made raw, the first call of restore
\* switches raw mode off and writes the paste-mode-off and cursor-show
\* sequences once; every later call changes nothing and writes nothing, so the
\* state after two or more calls is the state after one.
RestoreIsIdempotent ==
  /\ \A id \in 1..Len(terminals) :
       LET calls == restoresOf(id)
       IN \A k \in 1..Len(calls) :
            /\ calls[k].cleanupDone = (k > 1)
            /\ k > 1 => calls[k].same /\ calls[k].writes = 0 /\ ~calls[k].wasRaw
            /\ k = 1 /\ calls[k].wasRaw =>
                 calls[k].rawBefore /\ ~calls[k].rawAfter /\ calls[k].writes = 1
  /\ \A id \in 1..Len(terminals) :
       LET once == restore(W, id)
       IN /\ sansRestores(restore(once, id)) = sansRestores(once)
          /\ W.terminals[id].wasRaw => ~once.proc.rawMode

\* restore has been called twice on a terminal that makeRaw had made raw
RestoredTwice ==
  \E id \in 1..Len(terminals) :
    /\ Len(restoresOf(id)) >= 2
    /\ restoresOf(id)[1].wasRaw
    /\ ~proc.rawMode

\* C20: when a SIGCONT follows a SIGTSTP that was received while the terminal
\* was raw, then after the SIGCONT listener has run the terminal is raw again
\* or the listener has written its 'session suspended' message.
ResumeIsRawOrWarned ==
  hist.suspend.tstp /\ hist.suspend.tstpRaw /\ hist.suspend.cont =>
    hist.suspend.raw \/ hist.suspend.message

\* the listener's message is never written at all
NeverWarned ==
  \A k \in 1..Len(hist.stderr) : hist.stderr[k].line # SESSION_SUSPENDED

\* a session has been resumed, still attached, with raw mode off and no message
ResumedCookedAndSilent ==
  /\ hist.suspend.tstp /\ hist.suspend.tstpRaw /\ hist.suspend.cont
  /\ hist.suspend.attached /\ ~hist.suspend.raw /\ ~hist.suspend.message

\* C21: with auto-reconnect off, the step in which an attempt's promise settles
\* with a disconnected outcome ends the process with status 1 without another
\* call of connectToSession or another session lookup, and a command run that
\* way never makes a second call or a second lookup.
NoReconnectWhenDisabled ==
  [][/\ ~sup.autoReconnect =>
          /\ hist.calls' <= 1
          /\ hist.lookups' <= 1
          /\ sup'.pc \notin {"sleep", "sleepCatch", "refresh"}
     /\ (/\ ~sup.autoReconnect
         /\ conn.promise.type = "none"
         /\ conn'.id = conn.id /\ conn'.promise.type = "disconnected")
        => /\ proc'.exited /\ proc'.exitCode = 1
           /\ hist.calls' = hist.calls /\ hist.lookups' = hist.lookups]_vars

\* a command run without auto-reconnect has exited with status 1 on a
\* disconnected outcome of its only attempt
EndedOnDisconnect ==
  /\ ~sup.autoReconnect /\ hist.calls = 1
  /\ conn.promise.type = "disconnected"
  /\ proc.exited /\ proc.exitCode = 1

\* C22: the listeners of a SIGINT or SIGQUIT that arrives while the attempt is
\* connecting or open and has delivered no outcome deliver the outcome
\* interrupted, once; when they deliver it raw mode is off, and ws.close() has
\* been called, with raw mode already off at the call.
InterruptEndsAttempt ==
  hist.signal.sig \in {"SIGINT", "SIGQUIT"} /\ hist.signal.pending =>
    /\ Len(hist.signal.delivered) = 1
    /\ hist.signal.delivered[1].result = InterruptedResult
    /\ hist.signal.delivered[1].attempt = hist.signal.attempt
    /\ ~hist.signal.delivered[1].raw
    /\ hist.signal.closeCalls # <<>>
    /\ ~hist.signal.closeCalls[1].raw
    /\ hist.signal.closeCalls[1].delivered = 0

\* the same for SIGQUIT, and for a SIGINT that the attempt's own listener is the
\* first to receive
InterruptEndsAttemptHeardFirst ==
  /\ hist.signal.sig \in {"SIGINT", "SIGQUIT"} /\ hist.signal.pending
  /\ hist.signal.sig = "SIGINT" =>
       hist.signal.attempt = 1 \/ ~proc.globalHandlersRegistered
  => /\ Len(hist.signal.delivered) = 1
     /\ hist.signal.delivered[1].result = InterruptedResult
     /\ ~hist.signal.delivered[1].raw
     /\ hist.signal.closeCalls # <<>>
     /\ ~hist.signal.closeCalls[1].raw
     /\ hist.signal.closeCalls[1].delivered = 0

\* a SIGINT has ended an open reconnect attempt without any outcome
ReconnectInterruptedSilently ==
  /\ hist.signal.sig = "SIGINT" /\ hist.signal.pending /\ hist.signal.open
  /\ hist.signal.attempt > 1
  /\ hist.signal.delivered = <<>>
  /\ proc.exited /\ proc.exitCode = 130

\* C23: every attempt that has started delivers an outcome at some later time,
\* given only that the clock moves on and due timers run; no open, close or
\* error event of the transport is needed.
AttemptDelivers == \A id \in 1..2 : (conn.id = id) ~> (conn.id = id /\ hist.delivered # <<>>)

\* the health check has ended an open attempt whose transport never closed or
\* failed
SilentAttemptEnded ==
  /\ conn.connectionOpened /\ ~ws.errored /\ hist.closes = <<>>
  /\ hist.timer.kind = "health"
  /\ produces(hist.delivered, SilenceResult)

\* C24: a control message dispatched after the attempt's connectionClosed flag
\* has been set sends nothing, changes no file, writes no notice and reports
\* no outcome.
LateMessagesIgnored ==
  hist.late.seen =>
    /\ hist.late.sent = 0
    /\ ~hist.late.fsChanged
    /\ hist.late.stderr = <<>>
    /\ hist.late.produced = <<>>

\* a ping dispatched after the flag was set is answered by no pong, and no
\* message dispatched after it delivers an outcome
LateMessagesSendNothing ==
  hist.late.seen => hist.late.sent = 0 /\ hist.late.delivered = <<>>

\* close and error events and timer callbacks that find the flag set report
\* nothing and leave the transport alone
LateEventsDoNothing ==
  /\ hist.timer.kind # "" /\ hist.timer.closed =>
       hist.timer.produced = <<>> /\ ~hist.timer.terminated
  /\ \A k \in 1..Len(hist.closes) :
       ~hist.closes[k].handled => hist.closes[k].produced = <<>>

\* a file change has been applied by a message dispatched after the flag was set
LateFileChangeApplied ==
  hist.late.seen /\ hist.late.type = "file_change" /\ hist.late.fsChanged

\* a close event has found the flag set
LateCloseSeen == \E k \in 1..Len(hist.closes) : ~hist.closes[k].handled

\* C25: when the outcome interrupted is delivered (by the SIGINT or SIGQUIT
\* listener or by the second interrupt byte), the attempt has no timer pending
\* any more, and none is pending at any time after, so neither timer callback
\* can run after the delivery.
InterruptCancelsTimers ==
  /\ \A k \in 1..Len(hist.delivered) :
       hist.delivered[k].result = InterruptedResult => hist.delivered[k].timers = {}
  /\ conn.promise.type = "interrupted" =>
       /\ conn.connectionTimeout = -1 /\ conn.healthCheckInterval = -1
       /\ hist.timer.kind # "" => hist.timer.delivered = <<>> /\ hist.timer.at <= now

\* the second interrupt byte has ended an open attempt whose health check had
\* already run once
InterruptedByBytesAfterHealthCheck ==
  /\ conn.promise.type = "interrupted" /\ conn.connectionOpened
  /\ hist.signal.sig = ""
  /\ hist.timer.kind = "health"

\* a signal has ended an attempt that was still connecting
InterruptedWhileConnecting ==
  /\ conn.promise.type = "interrupted" /\ ~conn.connectionOpened
  /\ hist.signal.sig \in {"SIGINT", "SIGQUIT"}

\* the steps the open handler has taken, in order
openSteps == [k \in 1..Len(hist.open) |-> hist.open[k].step]

typeOf(entry) == IF entry.ok THEN asMessage(entry.msg).type ELSE ""

\* this step dispatches one text frame to an open session, and it is a ping
pingDispatched ==
  /\ Len(hist.parsed') = Len(hist.parsed) + 1
  /\ typeOf(hist.parsed'[Len(hist.parsed')]) = "ping"
  /\ ws.readyState = "OPEN"

\* what a step leaves alone besides the connection state
answersWithOnePong ==
  /\ ws' = [ws EXCEPT !.sent = Append(@, createPongMessage)]
  /\ SubSeq(hist.parsed', 1, Len(hist.parsed)) = hist.parsed
  /\ hist.thrown' = hist.thrown
  /\ hist.produced' = hist.produced /\ hist.delivered' = hist.delivered
  /\ hist.stderr' = hist.stderr /\ hist.exits' = hist.exits
  /\ hist.stdoutWrites' = hist.stdoutWrites
  /\ terminals' = terminals /\ proc' = proc /\ sup' = sup
  /\ tasks' = tasks /\ fs' = fs /\ now' = now

\* C27 as stated: a ping dispatched to an open session sends exactly one pong in
\* the same step (so before the next frame is dispatched), produces no outcome
\* and changes no other state, the connection state included.
PingChangesNothingElse ==
  [][pingDispatched => answersWithOnePong /\ conn' = conn]_vars

\* C27, amended: frames are dispatched in arrival order; a ping dispatched to an
\* open session sends exactly one pong in the same step, writes nothing,
\* produces no outcome and changes nothing else except lastDataReceived, which
\* the message handler sets to the time of every frame.
PingAnsweredOnce ==
  [][pingDispatched
       => answersWithOnePong /\ conn' = [conn EXCEPT !.lastDataReceived = now]]_vars

\* a ping that arrived after the clock had advanced was answered, and a second
\* frame was dispatched after it
PingAnsweredThenNextFrame ==
  /\ Len(hist.parsed) = 2 /\ typeOf(hist.parsed[1]) = "ping"
  /\ typeOf(hist.parsed[2]) # "ping"
  /\ SelectSeq(ws.sent, LAMBDA f : f.type = "pong") = <<createPongMessage>>
  /\ conn.lastDataReceived > StartTime

\* this step dispatches one text frame to an open session, and it is exit(code)
exitDispatched(code) ==
  /\ Len(hist.parsed') = Len(hist.parsed) + 1
  /\ typeOf(hist.parsed'[Len(hist.parsed')]) = "exit"
  /\ asMessage(hist.parsed'[Len(hist.parsed')].msg).code = code
  /\ ws.readyState = "OPEN"

\* C28: a step that dispatches exit(code) to an open session produces and
\* delivers the one outcome exit(code); at the delivery the terminal is restored
\* (cooked, bracketed paste off) and ws.close() has been called; the command
\* then exits the process with that code, and the attempt never produces or
\* delivers another outcome.
ExitMessageEndsWithItsCode ==
  [][/\ conn.promise.type = "exit" =>
          /\ conn'.promise = conn.promise
          /\ hist.produced' = hist.produced /\ hist.delivered' = hist.delivered
     /\ \A code \in {0, 2} :
       exitDispatched(code) =>
         LET d == hist.delivered'[Len(hist.delivered')]
         IN /\ hist.produced' =
                 Append(hist.produced, [attempt |-> conn.id, result |-> ExitResult(code)])
            /\ Len(hist.delivered') = Len(hist.delivered) + 1
            /\ d.result = ExitResult(code) /\ d.attempt = conn.id
            /\ ~d.raw /\ d.closeCalls = 1 /\ d.timers = {}
            /\ hist.closeCalls'[1].readyState = "OPEN" /\ ~hist.closeCalls'[1].raw
            /\ conn'.promise = ExitResult(code) /\ conn'.connectionClosed
            /\ ws'.readyState = "CLOSING"
            /\ ~proc'.rawMode /\ ~proc'.bracketedPaste
            /\ proc'.exited /\ proc'.exitCode = code
            /\ hist.exits' = Append(hist.exits, [code |-> code, by |-> "command",
                                                 raw |-> FALSE, attempt |-> conn.id])]_vars

\* exit(2) has ended an open session and the process
ExitedWithRemoteCode ==
  /\ proc.exited /\ proc.exitCode = 2
  /\ conn.promise = ExitResult(2)
  /\ hist.parsed # <<>> /\ typeOf(hist.parsed[Len(hist.parsed)]) = "exit"

\* the types handleControlMessage has a case for
HandledTypes == {"exit", "error", "ping", "sync_back_ack", "file_change"}

\* this step dispatches one text frame that decodes to an object
messageDispatched ==
  /\ Len(hist.parsed') = Len(hist.parsed) + 1
  /\ hist.parsed'[Len(hist.parsed')].ok
  /\ ~undecodable(hist.parsed'[Len(hist.parsed')].text)

\* C29: a step that dispatches an error message or a message of a type the
\* relay has no case for (a future type, a known type it only sends or ignores,
\* a type that is no string, no type at all) keeps the session: connectionClosed,
\* the outcome, inPaste and pasteBuffer, and both timers are as before, nothing
\* is sent and the transport is untouched; the error message writes one notice
\* to stderr, the other writes nothing.
NoticeKeepsSession ==
  [][messageDispatched
       /\ typeOf(hist.parsed'[Len(hist.parsed')]) \notin HandledTypes \ {"error"}
       => /\ conn'.connectionClosed = conn.connectionClosed
          /\ conn'.resolved = conn.resolved /\ conn'.promise = conn.promise
          /\ hist.produced' = hist.produced /\ hist.delivered' = hist.delivered
          /\ conn'.inPaste = conn.inPaste /\ conn'.pasteBuffer = conn.pasteBuffer
          /\ conn'.connectionTimeout = conn.connectionTimeout
          /\ conn'.healthCheckInterval = conn.healthCheckInterval
          /\ ws' = ws
          /\ terminals' = terminals /\ proc' = proc /\ sup' = sup
          /\ tasks' = tasks /\ fs' = fs
          /\ hist.thrown' = hist.thrown /\ hist.exits' = hist.exits
          /\ hist.stderr' =
               IF typeOf(hist.parsed'[Len(hist.parsed')]) = "error"
               THEN Append(hist.stderr, [attempt |-> conn.id, line |-> "Error: message"])
               ELSE hist.stderr]_vars

\* an open session in the middle of a paste, its health check pending, has
\* received an error message and a message of a type unknown to it
NoticesReceivedInPaste ==
  /\ ws.readyState = "OPEN" /\ ~conn.connectionClosed /\ conn.inPaste
  /\ conn.healthCheckInterval # -1
  /\ Len(hist.parsed) = 2
  /\ typeOf(hist.parsed[1]) = "error" /\ typeOf(hist.parsed[2]) = "future"
  /\ Len(hist.stderr) = 1

\* the file_upload_chunk messages sent under one upload id, in sending order
chunksOf(id) ==
  SelectSeq(ws.sent, LAMBDA f : f.type = "file_upload_chunk" /\ f.upload.id = id)

uploadIds == {ws.sent[k].upload.id : k \in 1..Len(ws.sent)} \ {<<>>}

\* the upload with this id is still suspended at its 1 ms timer
uploading(id) == \E k \in 1..Len(tasks) : tasks[k].chunk.uploadId = id

\* C30: the chunks sent under one upload id carry the indexes 0, 1, 2, ... in
\* that order, each once, with one total, one file name, path and type; no
\* chunk is empty; each chunk's slice of the base64 text starts where the
\* previous one ended, the first at 0; the chunk with the last index ends at the
\* end of the base64 text of the file; and an upload that has run to its end on
\* an open transport has sent all of its chunks.
ChunksInOrder ==
  \A id \in uploadIds :
    LET cs == chunksOf(id)
        b64len == Base64Len(fs[ChunkedText].size)
    IN /\ \A k \in 1..Len(cs) :
            /\ cs[k].upload.index = k - 1
            /\ cs[k].upload.total = totalChunksOf(b64len) /\ k <= cs[k].upload.total
            /\ cs[k].data = cs[1].data /\ ~cs[k].bin
            /\ cs[k].upload.from < cs[k].upload.to
            /\ cs[k].upload.from = (IF k = 1 THEN 0 ELSE cs[k - 1].upload.to)
            /\ cs[k].upload.to <= b64len
            /\ k = cs[k].upload.total => cs[k].upload.to = b64len
       /\ ws.readyState = "OPEN" /\ ~uploading(id) => Len(cs) = cs[1].upload.total

\* a file of three chunks or more has been sent whole, and a key pressed during
\* the upload was sent between two of its chunks
ChunkedUploadCompleted ==
  \E id \in uploadIds :
    /\ Len(chunksOf(id)) = chunksOf(id)[1].upload.total
    /\ Len(chunksOf(id)) >= 3
    /\ \E i, j, k \in 1..Len(ws.sent) :
         /\ i < j /\ j < k
         /\ ws.sent[i].upload.id = id /\ ws.sent[k].upload.id = id
         /\ ws.sent[j].bin

\* the upload messages among frames, and the remote path of each file they carry
uploadMessages(frames) ==
  SelectSeq(frames, LAMBDA f : f.type \in {"file_upload", "file_upload_chunk"})

firstMessages(frames) ==
  SelectSeq(frames, LAMBDA f : f.type = "file_upload"
                               \/ (f.type = "file_upload_chunk" /\ f.upload.index = 0))

remotePaths(frames) ==
  [k \in 1..Len(firstMessages(frames)) |-> firstMessages(frames)[k].data[2]]

\* the paste of chunk n is still suspended in an upload
pasteSuspended(n) == \E k \in 1..Len(tasks) : tasks[k].n = n

\* C31: for a paste of which at least one file was uploaded, nothing but upload
\* messages is sent while the paste is being handled; when it has been handled
\* on an open transport, what was sent for it is its upload messages followed
\* by one binary frame, the remote paths of the uploaded files joined by
\* spaces, and the pasted text itself was not sent.
PathsReplacePaste ==
  \A k \in 1..Len(hist.pastes) :
    LET p == hist.pastes[k]
        sent == sentForPaste(p.n)
        uploads == uploadMessages(sent)
        paths == BinaryFrame(Utf8Encode(JoinSpace(remotePaths(sent))), PasteOrigin(p.n))
    IN uploads # <<>> =>
         /\ paths # BinaryFrame(Utf8Encode(p.content), PasteOrigin(p.n))
         /\ pasteSuspended(p.n) => sent = uploads
         /\ ~pasteSuspended(p.n) /\ ws.readyState = "OPEN" =>
              sent = Append(uploads, paths)

\* a paste naming a chunked file and a small one has been handled: the paths
\* followed three upload messages
TwoFilesReplacedByPaths ==
  \E k \in 1..Len(hist.pastes) :
    /\ ~pasteSuspended(hist.pastes[k].n)
    /\ Len(remotePaths(sentForPaste(hist.pastes[k].n))) = 2
    /\ Len(uploadMessages(sentForPaste(hist.pastes[k].n))) >= 3
    /\ sentForPaste(hist.pastes[k].n)[Len(sentForPaste(hist.pastes[k].n))].bin

\* the warning of a sync-back request that was not acknowledged in time
SYNC_BACK_NO_ACK == "(sync-back) No ack from executor yet"

warned == \E k \in 1..Len(hist.stderr) : hist.stderr[k].line = SYNC_BACK_NO_ACK

\* the attempt asked for sync-back, no sync_back_ack came within the grace
\* window, and the session was still receiving after the window had ended
graceExpired ==
  /\ hist.ack.requestedAt # -1
  /\ hist.ack.ackAt = -1 \/ hist.ack.ackAt >= hist.ack.requestedAt + SYNC_BACK_ACK_TIMEOUT_MS
  /\ hist.lastFrameAt > hist.ack.requestedAt + SYNC_BACK_ACK_TIMEOUT_MS
  /\ ws.readyState = "OPEN" /\ ~conn.resolved

\* C32: an attempt that asked for sync-back and got no sync_back_ack within
\* SYNC_BACK_ACK_TIMEOUT_MS of the request has written the warning once the
\* window is over, and the session goes on; an attempt that did not ask, or
\* whose ack came within the window, never writes it.
UnacknowledgedSyncBackWarned ==
  /\ graceExpired => warned
  /\ hist.ack.requestedAt = -1 => ~warned
  /\ (/\ hist.ack.ackAt # -1
      /\ hist.ack.ackAt < hist.ack.requestedAt + SYNC_BACK_ACK_TIMEOUT_MS) => ~warned

\* the relay never writes the warning
NeverWarnsOfMissingAck == ~warned

\* a session that asked for sync-back is open and receiving after the window
\* ended without an ack
GraceExpiredUnacknowledged == graceExpired /\ hist.ack.ackAt = -1

\* the lines the relay writes to stderr when an attempt ends without an exit
\* message
EndingNotices ==
  {"Connection lost", "Connection replaced by another client", "Connection error",
   "Connection timeout: server not responding", "Connection timed out (no data)",
   "Force quit", SYNC_PAUSED}

\* the notices the relay had written for the ending of an attempt when it had
\* written upTo lines
endingNoticesOf(attempt, upTo) ==
  SelectSeq(SubSeq(hist.stderr, 1, upTo),
            LAMBDA e : e.attempt = attempt /\ e.line \in EndingNotices)

\* the attempts delivered an outcome of one of these types have one notice each
noticedOnce(types) ==
  \A k \in 1..Len(hist.delivered) :
    hist.delivered[k].result.type \in types =>
      Len(endingNoticesOf(hist.delivered[k].attempt, hist.delivered[k].stderr)) = 1

\* C33: when an attempt is delivered the outcome disconnected, replaced or
\* interrupted, the relay has written exactly one notice line for that ending, whichever of the close, error, timer, signal and interrupt-byte
\* events produced it and whether or not sync-back was asked for.
OneNoticePerEnding == noticedOnce({"disconnected", "replaced", "interrupted"})

\* the endings the relay itself detects (close, error, either timeout) have one
\* notice each
OneNoticePerDisconnect == noticedOnce({"disconnected", "replaced"})

\* an attempt without sync-back was interrupted and no notice was written
InterruptedWithoutNotice ==
  /\ conn.promise.type = "interrupted" /\ ~conn.syncBack
  /\ hist.delivered # <<>> /\ endingNoticesOf(conn.id, hist.delivered[1].stderr) = <<>>

\* an attempt with sync-back was ended by SIGQUIT and two notices were written
QuitNoticedTwice ==
  /\ conn.promise.type = "interrupted" /\ conn.syncBack
  /\ hist.delivered # <<>> /\ Len(endingNoticesOf(conn.id, hist.delivered[1].stderr)) = 2

\* connectToSession threw in this step: it was called and made no attempt
callThrew ==
  hist.calls' = hist.calls + 1 /\ hist.connects' = hist.connects

\* C34: in one run of either command the reconnect counter never goes down,
\* whatever happens to the attempts in between, so connectToSession is called at
\* most MAX_RECONNECT_ATTEMPTS + 1 times; and while the counter is 0 the catch
\* block never retries: a call that throws then ends the command with status 1.
CounterOnlyGrows ==
  [][/\ sup'.reconnectAttempts >= sup.reconnectAttempts
     /\ hist.calls' <= MAX_RECONNECT_ATTEMPTS + 1
     /\ hist.calls' >= hist.calls
     /\ sup.reconnectAttempts = 0 => sup'.pc # "sleepCatch"
     /\ (sup.reconnectAttempts = 0 /\ callThrew) =>
          /\ proc'.exited /\ proc'.exitCode = 1
          /\ sup'.reconnectAttempts = 0]_vars

\* the sixth call made an attempt that opened, and the counter still holds the
\* five disconnections before it
SixthAttemptOpened ==
  /\ hist.calls = MAX_RECONNECT_ATTEMPTS + 1
  /\ hist.connects = MAX_RECONNECT_ATTEMPTS + 1
  /\ conn.connectionOpened
  /\ sup.reconnectAttempts = MAX_RECONNECT_ATTEMPTS
  /\ ~proc.exited

\* the lookup returned a session the connect command may attach to
passesChecks(o) ==
  /\ ~o.throws
  /\ o.status \notin {"stopped", "timed_out"}
  /\ o.machine_state = "" \/ o.machine_state = "started"

\* C35: every call of connectToSession by the connect command is made in the
\* step in which the lookup of that iteration settled, and that lookup returned
\* a session that is neither stopped nor timed out and whose machine state is
\* absent or 'started'; so there are never more calls than lookups.
ConnectsOnlyAfterPassingLookup ==
  [][(sup.cmd = "connect" /\ hist.calls' = hist.calls + 1) =>
       /\ sup.pc = "lookup"
       /\ hist.lookup'.n = hist.lookups
       /\ hist.lookup.n < hist.lookups
       /\ passesChecks(hist.lookup'.o)
       /\ hist.calls' <= hist.lookups]_vars

\* the connect command reconnected after a lookup that returned no machine
\* state, and the attempt opened
ReconnectedAfterPassingLookup ==
  /\ sup.cmd = "connect"
  /\ hist.calls >= 2
  /\ hist.lookup.n = hist.lookups
  /\ hist.lookup.o.machine_state = ""
  /\ sup.pc = "attached"
  /\ conn.connectionOpened

\* the SIGINT and SIGQUIT listeners the relay registered for an attempt
relayListenersOf(id) ==
  {k \in 1..Len(proc.sigint) : proc.sigint[k] = RelayListener(id)}
    \cup {k \in 1..Len(proc.sigquit) : proc.sigquit[k] = RelayListener(id)}

\* nothing the current attempt registered is active any more
detached ==
  /\ conn.connectionTimeout = -1 /\ conn.healthCheckInterval = -1
  /\ relayListenersOf(conn.id) = {}
  /\ ~conn.stdinOn /\ ~conn.resizeOn

\* C36: once an attempt has delivered its outcome, whichever event produced it,
\* its two timers are cancelled and its SIGINT, SIGQUIT, stdin and resize
\* listeners are removed; so the only relay listeners on the process are those
\* of the attempt in progress.
FinishedAttemptDetached ==
  /\ \A k \in 1..Len(hist.delivered) : hist.delivered[k].timers = {}
  /\ conn.promise.type # "none" => detached
  /\ \A k \in 1..Len(proc.sigint) :
       proc.sigint[k].h = "relay" => proc.sigint[k].id = conn.id
  /\ \A k \in 1..Len(proc.sigquit) :
       proc.sigquit[k].h = "relay" => proc.sigquit[k].id = conn.id

\* every outcome but that of the handshake timeout is delivered by a detached
\* attempt
DetachedUnlessHandshakeTimeout ==
  (/\ conn.promise.type # "none"
   /\ conn.promise # DisconnectedResult("Connection timeout")) => detached

\* the handshake timeout has ended an attempt, and during the next attempt the
\* signal listeners of the finished one are still registered
ListenersOutliveHandshakeTimeout ==
  /\ conn.id = 2 /\ conn.promise.type = "none"
  /\ relayListenersOf(1) # {}

\* the data frames (not upload messages) sent on behalf of paste n
dataSends(n) == SelectSeq(sentForPaste(n), LAMBDA f : f.bin)

\* exactly one data frame was sent for the paste: its payload, or the remote
\* paths of the files uploaded for it
oneDataSend(p) ==
  \/ dataSends(p.n) = <<BinaryFrame(Utf8Encode(p.content), PasteOrigin(p.n))>>
  \/ /\ remotePaths(sentForPaste(p.n)) # <<>>
     /\ dataSends(p.n) =
          <<BinaryFrame(Utf8Encode(JoinSpace(remotePaths(sentForPaste(p.n)))),
                        PasteOrigin(p.n))>>

\* the paste handler has finished with the paste on an open transport
pasteHandled(p) ==
  /\ ws.readyState = "OPEN"
  /\ ~pasteSuspended(p.n)

\* C37: every completed paste handled on an open transport, whatever its payload
\* (an empty or blank one included), has produced exactly one data frame, which
\* carries the payload or the remote paths of its uploaded files.
EveryPasteSendsOnce ==
  \A k \in 1..Len(hist.pastes) :
    pasteHandled(hist.pastes[k]) => oneDataSend(hist.pastes[k])

\* every paste with a payload that is not blank produces exactly one data frame
NonBlankPasteSendsOnce ==
  \A k \in 1..Len(hist.pastes) :
    (pasteHandled(hist.pastes[k]) /\ Trim(hist.pastes[k].content) # <<>>) =>
      oneDataSend(hist.pastes[k])

\* a paste of one space was handled and nothing was sent for it
BlankPasteDropped ==
  \E k \in 1..Len(hist.pastes) :
    /\ hist.pastes[k].content = <<" ">>
    /\ pasteHandled(hist.pastes[k])
    /\ sentForPaste(hist.pastes[k].n) = <<>>

EndsWith(s, p) == Len(p) <= Len(s) /\ SubSeq(s, Len(s) - Len(p) + 1, Len(s)) = p

\* chunk k ends with the first bytes of the marker and chunk k + 1 starts with
\* the rest of it
straddles(k, marker) ==
  /\ k < Len(hist.chunks)
  /\ hist.chunks[k].open /\ hist.chunks[k + 1].open
  /\ \E c \in 1..(Len(marker) - 1) :
       /\ EndsWith(hist.chunks[k].data, SubSeq(marker, 1, c))
       /\ StartsWith(hist.chunks[k + 1].data, SubSeq(marker, c + 1, Len(marker)))

\* whether the relay was inside a paste when it had handled chunk k
inPasteAfter(k) ==
  IF k < Len(hist.chunks) THEN hist.chunks[k + 1].inPaste ELSE conn.inPaste

\* no byte of a marker is in what the chunk forwarded or handed to the paste
\* handler
noMarkerBytes(c) ==
  /\ \A i \in 1..Len(c.sent) : \A j \in 1..Len(c.sent[i].data) : c.sent[i].data[j] # "ESC"
  /\ \A i \in 1..Len(c.pastes) :
       \A j \in 1..Len(c.pastes[i].content) : c.pastes[i].content[j] # "ESC"

\* C38: a paste marker cut by a chunk boundary is still recognised. When the
\* end marker straddles chunks k and k + 1 of a paste, the paste ends in chunk
\* k + 1; when the start marker straddles them, a paste has begun by chunk k + 1;
\* and in both cases no marker byte is forwarded or handed over as payload.
SplitMarkerRecognised ==
  \A k \in 1..Len(hist.chunks) :
    /\ (inPasteAfter(k) /\ straddles(k, PASTE_END)) =>
         /\ Len(hist.chunks[k + 1].pastes) = 1
         /\ noMarkerBytes(hist.chunks[k]) /\ noMarkerBytes(hist.chunks[k + 1])
    /\ (~inPasteAfter(k) /\ straddles(k, PASTE_START)) =>
         /\ hist.chunks[k + 1].pastes # <<>> \/ inPasteAfter(k + 1)
         /\ noMarkerBytes(hist.chunks[k]) /\ noMarkerBytes(hist.chunks[k + 1])

\* the end marker of a paste straddled two chunks and the relay is still
\* buffering the paste, with the marker in the buffer
SplitEndMarkerBuffered ==
  /\ Len(hist.chunks) = 2
  /\ straddles(1, PASTE_END)
  /\ conn.inPaste
  /\ IndexOf(conn.pasteBuffer, PASTE_END) # -1

\* the start marker straddled two chunks and its bytes were forwarded as input
SplitStartMarkerForwarded ==
  /\ Len(hist.chunks) = 2
  /\ straddles(1, PASTE_START)
  /\ ~conn.inPaste
  /\ ~noMarkerBytes(hist.chunks[1]) /\ ~noMarkerBytes(hist.chunks[2])

\* C39: on one Terminal instance of a process attached to an interactive
\* terminal, whatever calls of makeRaw and restore came before, raw mode is off
\* when a call of restore returns.
RestoreLeavesRawOff ==
  \A k \in 1..Len(hist.restores) : ~hist.restores[k].rawAfter

\* the first call of restore on an instance leaves raw mode off
FirstRestoreLeavesRawOff ==
  hist.restores # <<>> => ~hist.restores[1].rawAfter

\* makeRaw, restore, makeRaw, restore: the second restore found the terminal
\* raw and returned with it still raw
RawAfterSecondRestore ==
  /\ hist.nInputs = 4
  /\ Len(hist.restores) = 2
  /\ hist.restores[1].rawBefore /\ ~hist.restores[1].rawAfter
  /\ hist.restores[2].rawBefore /\ hist.restores[2].rawAfter
  /\ proc.rawMode

\* C40: every call of connectToSession, the first and every reconnect, passes
\* the bearer token of the most recent lookup or creation that succeeded and
\* the routing header of the target machine.
AttemptsCarryTokenAndRouting ==
  [][hist.calls' = hist.calls + 1 =>
       /\ hist.opts'.call = hist.calls'
       /\ hist.lookup'.ok >= 0 /\ hist.opts'.token = hist.lookup'.ok
       /\ hist.opts'.routing]_vars

\* every call passes the token of the most recent lookup or creation that
\* succeeded, and every call of the connect command and the first call of the
\* new command pass the routing header
AttemptsCarryToken ==
  [][hist.calls' = hist.calls + 1 =>
       /\ hist.opts'.call = hist.calls'
       /\ hist.lookup'.ok >= 0 /\ hist.opts'.token = hist.lookup'.ok
       /\ (sup.cmd = "connect" \/ hist.calls = 0) => hist.opts'.routing]_vars

\* the new command has reconnected after a refresh of the session, and the
\* attempt, opened without routing header, is up
ReconnectedWithoutRoutingHeader ==
  /\ sup.cmd = "new"
  /\ hist.calls >= 2 /\ hist.opts.call = hist.calls
  /\ hist.opts.token = hist.lookups
  /\ ~hist.opts.routing
  /\ conn.connectionOpened /\ ~conn.resolved

====
